---- MODULE Spec2Model ----
(***************************************************************************)
(* TrendzBR market monitor: the alert detection and state diffing engine.  *)
(*                                                                         *)
(* The model covers lib/redis_store.py (RedisStore: the snapshot hash, the *)
(* initialization marker, the expiring dedup keys), lib/detector.py (the   *)
(* three detection rules), lib/telegram_sender.py (send_alerts_batch) and  *)
(* the three entry points that run a market cycle: api/monitor.py          *)
(* run_cycle, worker.py run_market_cycle and api/bot_commands.py           *)
(* cmd_verificar.                                                          *)
(* The social monitor (lib/social_store.py and run_social_cycle of         *)
(* api/social_monitor.py and worker.py) is modelled on its own variables.   *)
(*                                                                         *)
(* Units.  Percentages are held in hundredths of a percentage point (the   *)
(* scraper rounds them to two decimals), multipliers in hundredths, prices *)
(* in 1/10000, and the clock in seconds.  A cycle takes seconds while the  *)
(* clock of the model moves in steps of minutes, so the clock advances     *)
(* between cycles, when the scheduler waits.                               *)
(*                                                                         *)
(* Pool attributes that are copied through and never read by a decision    *)
(* (title, category, volume, status, url) and the rendered message text    *)
(* are left out; an alert carries instead the option and the window its    *)
(* message and log line name.                                              *)
(***************************************************************************)
EXTENDS Integers, Sequences, FiniteSets, TLC

VARIABLES
    now,             \* wall clock, seconds
    redis_state,     \* hash trendzbr:state (NoState when the key is absent)
    redis_init,      \* key trendzbr:init exists
    redis_closing,   \* keys trendzbr:closing:<pool>:<window>, expiry time (0 = absent)
    redis_cooldown,  \* keys trendzbr:cooldown:<market>, expiry time (0 = absent)
    redis_error,     \* key trendzbr:last_error, expiry time (0 = absent)
    pc,              \* per cycle slot: the position inside the cycle
    store,           \* per cycle slot: the RedisStore instance (in-memory cache)
    pools,           \* per cycle slot: the fetched pool list
    alerts,          \* per cycle slot: the alerts detected so far in this cycle
    sent_count,      \* per cycle slot: result of send_alerts_batch
    cycles,          \* number of cycles started
    failures,        \* number of exceptions raised
    last,            \* the outcome of the most recent cycle that ended
    emitted,         \* per alert identity: how often and when last it was detected
    error_alerts,    \* the system-error notifications attempted: how many, when last
    social_seen,     \* set social:seen:instagram
    social_init,     \* key social:init exists
    social_pc,       \* the position inside the social cycle
    social_entry,    \* the entry point running the social cycle
    is_first,        \* social cycle: the result of check_first_run
    posts,           \* social cycle: the posts fetched for the profile
    post_idx,        \* social cycle: the post the loop is at
    new_ig_posts,    \* social cycle: the posts queued for notification
    queued,          \* per post id: how often a post was queued under it
    social_cycles    \* number of social cycles started

\* The state of the social monitor.
socialVars == <<social_seen, social_init, social_pc, social_entry, is_first, posts, post_idx,
                new_ig_posts, queued, social_cycles>>

vars == <<now, redis_state, redis_init, redis_closing, redis_cooldown, redis_error,
          pc, store, pools, alerts, sent_count, cycles, failures, last, emitted,
          error_alerts, socialVars>>

redisVars == <<redis_state, redis_init, redis_closing, redis_cooldown, redis_error>>

-----------------------------------------------------------------------------
(* Bounds of the model *)

\* Cycles started in one behaviour.
MaxCycles == 3

\* Exceptions raised in one behaviour.
MaxFailures == 1

\* Cycle slots: slot 1 runs the serialized cycles; a second slot exists for
\* cycles that overlap.
Procs == {1, 2}

\* The entry points that run a market cycle: api/monitor.py run_cycle,
\* worker.py run_market_cycle, api/bot_commands.py cmd_verificar.
EntryPoints == {"monitor", "worker", "verificar"}

PoolIds == {"p1", "p2"}
MarketIds == {1, 2, 3}

-----------------------------------------------------------------------------
(* Program constants, lib/config.py *)

ODDS_CHANGE_THRESHOLD_PP == 1000          \* 10.0 pp
ODDS_CHANGE_COOLDOWN_MINUTES == 30
CLOSING_WINDOWS_HOURS == <<24, 6, 1>>
MAX_TELEGRAM_MESSAGES_PER_CYCLE == 20
HIGH_PRIORITY_PP == 2000                  \* 20 pp, detector.py
CLOSING_TTL == 86400                      \* redis_store.py record_closing_alert
ERROR_TTL == 600                          \* redis_store.py record_error_alert

-----------------------------------------------------------------------------
(* Helpers *)

\* end_date = None (a pool without a closing time).
NoDate == 0

\* An end_date datetime.fromisoformat rejects (ValueError).
BadDate == 0 - 1
NoState == [absent |-> TRUE]
NoAlerts == <<>>

Range(s) == {s[i] : i \in DOMAIN s}

Abs(x) == IF x < 0 THEN -x ELSE x

Min(a, b) == IF a < b THEN a ELSE b

\* sorted(set): the ascending list of a set of ids.
RECURSIVE Sorted(_)
Sorted(S) ==
    IF S = {} THEN <<>>
    ELSE LET m == CHOOSE x \in S : \A y \in S : x = y \/ ~(y < x)
         IN  <<m>> \o Sorted(S \ {m})

\* Python sorted() on pool ids orders strings; the two ids are in order p1 < p2.
SortedPoolIds(S) ==
    (IF "p1" \in S THEN <<"p1">> ELSE <<>>) \o (IF "p2" \in S THEN <<"p2">> ELSE <<>>)

\* Function update that also extends the domain (dict[key] = value).
Put(f, k, v) == [x \in (DOMAIN f) \cup {k} |-> IF x = k THEN v ELSE f[x]]

EmptyDict == [x \in {} |-> 0]

\* redis EXISTS on a key with expiry.
KeyExists(expiry) == expiry > now

\* Keys whose TTL has elapsed at time t are deleted by redis.
Expire(f, t) == [k \in DOMAIN f |-> IF f[k] > t THEN f[k] ELSE 0]

-----------------------------------------------------------------------------
(* lib/scraper.py: _raw_to_pool *)

\* round(1.0 / price, 2) if price > 0.01 else 0.0, in hundredths.
Multiplier(price) ==
    IF price > 100 THEN (2 * 1000000 + price) \div (2 * price) ELSE 0

RawToOption(mid, hype) ==
    [market_id      |-> mid,
     yes_pct        |-> hype,
     no_pct         |-> 10000 - hype,
     yes_multiplier |-> Multiplier(hype),
     no_multiplier  |-> Multiplier(10000 - hype)]

\* end_date is set from the first sub-market's marketEnd, when there is one
\* (0: no marketEnd).
RawToPool(pid, opts, marketEnd) ==
    [pool_id  |-> pid,
     end_date |-> IF opts # <<>> /\ marketEnd # 0 THEN marketEnd ELSE NoDate,
     options  |-> opts]

-----------------------------------------------------------------------------
(* lib/redis_store.py: RedisStore *)

\* RedisStore.__init__: the empty in-memory cache.
NewStore ==
    [pools            |-> EmptyDict,
     markets          |-> EmptyDict,
     snapshots        |-> EmptyDict,
     known_pool_ids   |-> {},
     known_market_ids |-> {},
     meta             |-> [cycle_count |-> 0, last_cycle_ts |-> 0],
     is_first_run     |-> FALSE]

\* Mutant: the first run is decided by the init key alone.
load_state_InitOnly(st, state, init) ==
    IF state = NoState
    THEN [st EXCEPT !.is_first_run = ~init]
    ELSE [pools            |-> state.pools,
          markets          |-> state.markets,
          snapshots        |-> state.snapshots,
          known_pool_ids   |-> Range(state.known_pool_ids),
          known_market_ids |-> Range(state.known_market_ids),
          meta             |-> state.meta,
          is_first_run     |-> ~init]

\* load_state: HGETALL, then EXISTS on the init key when the hash is empty.
load_state(st, state, init) ==
    IF state = NoState
    THEN [st EXCEPT !.is_first_run = ~init]
    ELSE [pools            |-> state.pools,
          markets          |-> state.markets,
          snapshots        |-> state.snapshots,
          known_pool_ids   |-> Range(state.known_pool_ids),
          known_market_ids |-> Range(state.known_market_ids),
          meta             |-> state.meta,
          is_first_run     |-> FALSE]

\* Mutant: an observation already stored is not overwritten.
RECURSIVE MergeOptions_KeepsFirst(_, _, _, _)
MergeOptions_KeepsFirst(st, pid, opts, ts) ==
    IF opts = <<>> THEN st
    ELSE LET opt == Head(opts)
             mid == opt.market_id
             st2 == [st EXCEPT
                       !.markets = Put(@, mid, [pool_id |-> pid]),
                       !.known_market_ids = @ \cup {mid},
                       !.snapshots = IF mid \in DOMAIN @ THEN @ ELSE Put(@, mid,
                           [yes_pct        |-> opt.yes_pct,
                            no_pct         |-> opt.no_pct,
                            yes_multiplier |-> opt.yes_multiplier,
                            no_multiplier  |-> opt.no_multiplier,
                            ts             |-> ts])]
         IN  MergeOptions_KeepsFirst(st2, pid, Tail(opts), ts)

\* save_state, the loop over one pool's options.
RECURSIVE MergeOptions(_, _, _, _)
MergeOptions(st, pid, opts, ts) ==
    IF opts = <<>> THEN st
    ELSE LET opt == Head(opts)
             mid == opt.market_id
             st2 == [st EXCEPT
                       !.markets = Put(@, mid, [pool_id |-> pid]),
                       !.known_market_ids = @ \cup {mid},
                       !.snapshots = Put(@, mid,
                           [yes_pct        |-> opt.yes_pct,
                            no_pct         |-> opt.no_pct,
                            yes_multiplier |-> opt.yes_multiplier,
                            no_multiplier  |-> opt.no_multiplier,
                            ts             |-> ts])]
         IN  MergeOptions(st2, pid, Tail(opts), ts)

\* Mutant: the id of a pool is added inside the loop over its options.
RECURSIVE MergePools_IdWithOptions(_, _, _)
MergePools_IdWithOptions(st, pl, ts) ==
    IF pl = <<>> THEN st
    ELSE LET pool == Head(pl)
             st2 == [st EXCEPT
                       !.pools = Put(@, pool.pool_id, [end_date |-> pool.end_date]),
                       !.known_pool_ids = IF pool.options = <<>> THEN @
                                          ELSE @ \cup {pool.pool_id}]
         IN  MergePools_IdWithOptions(MergeOptions(st2, pool.pool_id, pool.options, ts),
                                      Tail(pl), ts)

\* save_state, the loop over the pools.
RECURSIVE MergePools(_, _, _)
MergePools(st, pl, ts) ==
    IF pl = <<>> THEN st
    ELSE LET pool == Head(pl)
             st2 == [st EXCEPT
                       !.pools = Put(@, pool.pool_id, [end_date |-> pool.end_date]),
                       !.known_pool_ids = @ \cup {pool.pool_id}]
         IN  MergePools(MergeOptions(st2, pool.pool_id, pool.options, ts), Tail(pl), ts)

\* Mutant: the snapshot is rebuilt from the fetched pools alone.
MergeState_Replaces(st, pl, ts) ==
    LET m == MergePools([st EXCEPT !.pools = EmptyDict, !.markets = EmptyDict,
                                   !.snapshots = EmptyDict, !.known_pool_ids = {},
                                   !.known_market_ids = {}], pl, ts)
    IN  [m EXCEPT !.meta = [last_cycle_ts |-> ts,
                            cycle_count   |-> st.meta.cycle_count + 1]]

\* save_state, the in-memory part: merge the pools and stamp the metadata.
MergeState(st, pl, ts) ==
    LET m == MergePools(st, pl, ts)
    IN  [m EXCEPT !.meta = [last_cycle_ts |-> ts,
                            cycle_count   |-> st.meta.cycle_count + 1]]

\* save_state, the HSET: the six fields of the hash as they are serialized.
DumpState(st) ==
    [pools            |-> st.pools,
     markets          |-> st.markets,
     snapshots        |-> st.snapshots,
     known_pool_ids   |-> SortedPoolIds(st.known_pool_ids),
     known_market_ids |-> Sorted(st.known_market_ids),
     meta             |-> st.meta]

get_known_pool_ids(st) == st.known_pool_ids

\* Mutant: no market is known.
get_known_market_ids_Empty(st) == {}

get_known_market_ids(st) == st.known_market_ids

\* get_latest_snapshot: the stored observation, or None.
HasSnapshot(st, mid) == mid \in DOMAIN st.snapshots

get_latest_snapshot(st, mid) == st.snapshots[mid]

\* Mutant: the cooldown key is never seen.
is_odds_on_cooldown_Never(cooldown, mid) == FALSE

is_odds_on_cooldown(cooldown, mid) == KeyExists(cooldown[mid])

\* Mutant: the cooldown is counted in hours.
record_odds_cooldown_Hours(cooldown, mid) ==
    [cooldown EXCEPT ![mid] = now + ODDS_CHANGE_COOLDOWN_MINUTES * 3600]

record_odds_cooldown(cooldown, mid) ==
    [cooldown EXCEPT ![mid] = now + ODDS_CHANGE_COOLDOWN_MINUTES * 60]

WindowKey(window_hours) == ToString(window_hours) \o "h"

WindowKeys == {WindowKey(CLOSING_WINDOWS_HOURS[i]) : i \in DOMAIN CLOSING_WINDOWS_HOURS}

has_closing_alert_been_sent(closing, pid, window) == KeyExists(closing[<<pid, window>>])

\* Mutant: the closing key lives one hour.
record_closing_alert_ShortTTL(closing, pid, window) ==
    [closing EXCEPT ![<<pid, window>>] = now + 60 * 60]

record_closing_alert(closing, pid, window) ==
    [closing EXCEPT ![<<pid, window>>] = now + CLOSING_TTL]

\* Mutant: the error cooldown key is not looked at.
can_send_error_alert_Always == TRUE

can_send_error_alert == ~KeyExists(redis_error)

-----------------------------------------------------------------------------
(* lib/detector.py: AlertDetector *)

\* An Alert.  market_id is the option the message names (0: the pool-level
\* message), window the closing window the log line names ("": none).
Alert(type, pid, priority, mid, window) ==
    [alert_type |-> type, pool_id |-> pid, priority |-> priority,
     market_id |-> mid, window |-> window]

\* check_new_markets, the loop over the options of a known pool.
RECURSIVE NewOptionAlerts(_, _, _)
NewOptionAlerts(known_market_ids, pool, opts) ==
    IF opts = <<>> THEN <<>>
    ELSE (IF Head(opts).market_id \notin known_market_ids
          THEN <<Alert("new_market", pool.pool_id, "low", Head(opts).market_id, "")>>
          ELSE <<>>)
         \o NewOptionAlerts(known_market_ids, pool, Tail(opts))

\* Mutant: a new pool also gets the alerts of its options.
NewMarketAlertsOfPool_AlsoOptions(st, pool) ==
    IF pool.pool_id \notin get_known_pool_ids(st)
    THEN <<Alert("new_market", pool.pool_id, "medium", 0, "")>>
         \o NewOptionAlerts(get_known_market_ids(st), pool, pool.options)
    ELSE NewOptionAlerts(get_known_market_ids(st), pool, pool.options)

\* check_new_markets, the body of the loop over the pools.
NewMarketAlertsOfPool(st, pool) ==
    IF pool.pool_id \notin get_known_pool_ids(st)
    THEN <<Alert("new_market", pool.pool_id, "medium", 0, "")>>
    ELSE NewOptionAlerts(get_known_market_ids(st), pool, pool.options)

RECURSIVE check_new_markets(_, _)
check_new_markets(st, current_pools) ==
    IF current_pools = <<>> THEN <<>>
    ELSE NewMarketAlertsOfPool(st, Head(current_pools))
         \o check_new_markets(st, Tail(current_pools))

\* The (pool, option) pairs in the order the nested loops of
\* check_odds_changes visit them.
RECURSIVE OptionItems(_)
OptionItems(current_pools) ==
    IF current_pools = <<>> THEN <<>>
    ELSE LET pool == Head(current_pools)
         IN  [i \in 1..Len(pool.options) |-> [pool_id |-> pool.pool_id, opt |-> pool.options[i]]]
             \o OptionItems(Tail(current_pools))

\* Mutant: a change equal to the threshold is skipped.
BelowThreshold_Inclusive(change_pp) == Abs(change_pp) <= ODDS_CHANGE_THRESHOLD_PP

\* Mutant: a change 0.01 pp under the threshold is not skipped.
BelowThreshold_Short(change_pp) == Abs(change_pp) < ODDS_CHANGE_THRESHOLD_PP - 1

\* abs(change_pp) < config.ODDS_CHANGE_THRESHOLD_PP
BelowThreshold(change_pp) == Abs(change_pp) < ODDS_CHANGE_THRESHOLD_PP

\* Mutant: a change of exactly 20 pp is medium.
OddsPriority_Exclusive(change_pp) == IF Abs(change_pp) > HIGH_PRIORITY_PP THEN "high" ELSE "medium"

\* priority = "high" if abs(change_pp) >= 20 else "medium"
OddsPriority(change_pp) == IF Abs(change_pp) >= HIGH_PRIORITY_PP THEN "high" ELSE "medium"

\* Mutant: the cooldown key is recorded before the threshold is looked at.
OddsStep_RecordsFirst(st, item, acc) ==
    LET opt == item.opt IN
    IF ~HasSnapshot(st, opt.market_id) THEN acc
    ELSE LET prev      == get_latest_snapshot(st, opt.market_id)
             change_pp == opt.yes_pct - prev.yes_pct
             recorded  == record_odds_cooldown(acc.cooldown, opt.market_id)
         IN  IF is_odds_on_cooldown(acc.cooldown, opt.market_id) THEN acc
             ELSE IF BelowThreshold(change_pp) THEN [acc EXCEPT !.cooldown = recorded]
             ELSE [alerts   |-> Append(acc.alerts,
                                  Alert("odds_change", item.pool_id, OddsPriority(change_pp),
                                        opt.market_id, "")),
                   cooldown |-> recorded]

\* Mutant: an option without stored observation is compared with zero.
OddsStep_ZeroBaseline(st, item, acc) ==
    LET opt       == item.opt
        prev_yes  == IF HasSnapshot(st, opt.market_id)
                     THEN get_latest_snapshot(st, opt.market_id).yes_pct ELSE 0
        change_pp == opt.yes_pct - prev_yes
    IN  IF BelowThreshold(change_pp) THEN acc
        ELSE IF is_odds_on_cooldown(acc.cooldown, opt.market_id) THEN acc
        ELSE [alerts   |-> Append(acc.alerts,
                             Alert("odds_change", item.pool_id, OddsPriority(change_pp),
                                   opt.market_id, "")),
              cooldown |-> record_odds_cooldown(acc.cooldown, opt.market_id)]

\* check_odds_changes, one iteration: the alert list and the cooldown keys
\* after the option has been looked at.
OddsStep(st, item, acc) ==
    LET opt == item.opt IN
    IF ~HasSnapshot(st, opt.market_id) THEN acc
    ELSE LET prev      == get_latest_snapshot(st, opt.market_id)
             change_pp == opt.yes_pct - prev.yes_pct
         IN  IF BelowThreshold(change_pp) THEN acc
             ELSE IF is_odds_on_cooldown(acc.cooldown, opt.market_id) THEN acc
             ELSE [alerts   |-> Append(acc.alerts,
                                  Alert("odds_change", item.pool_id, OddsPriority(change_pp),
                                        opt.market_id, "")),
                   cooldown |-> record_odds_cooldown(acc.cooldown, opt.market_id)]

RECURSIVE OddsLoop(_, _, _)
OddsLoop(st, items, acc) ==
    IF items = <<>> THEN acc
    ELSE OddsLoop(st, Tail(items), OddsStep(st, Head(items), acc))

\* check_odds_changes: the alerts returned and the cooldown keys it leaves.
check_odds_changes(st, current_pools, cooldown) ==
    OddsLoop(st, OptionItems(current_pools), [alerts |-> <<>>, cooldown |-> cooldown])

\* Mutant: the one-hour and six-hour limits are exclusive.
ClosingPriority_Strict(window_hours) ==
    IF window_hours < 1 THEN "high"
    ELSE IF window_hours < 6 THEN "medium"
    ELSE "low"

\* The priority of a closing window.
ClosingPriority(window_hours) ==
    IF window_hours <= 1 THEN "high"
    ELSE IF window_hours <= 6 THEN "medium"
    ELSE "low"

\* Mutant: a window fires up to an hour early.
OutsideWindow_Loose(time_left, window_hours) == time_left > (window_hours + 1) * 3600

\* hours_left > window_hours, with time_left in seconds.
OutsideWindow(time_left, window_hours) == time_left > window_hours * 3600

\* check_closing_soon, the loop over the windows from index i on: the
\* window that fires for the pool, or 0 when none does.
RECURSIVE FiringWindow(_, _, _, _)
FiringWindow(closing, pool, time_left, i) ==
    IF i > Len(CLOSING_WINDOWS_HOURS) THEN 0
    ELSE LET window_hours == CLOSING_WINDOWS_HOURS[i] IN
         IF OutsideWindow(time_left, window_hours)
         THEN FiringWindow(closing, pool, time_left, i + 1)
         ELSE IF has_closing_alert_been_sent(closing, pool.pool_id, WindowKey(window_hours))
         THEN FiringWindow(closing, pool, time_left, i + 1)
         ELSE window_hours

\* Mutant: no break, every window the pool is inside fires.
RECURSIVE AllWindows(_, _, _, _)
AllWindows(pool, time_left, i, acc) ==
    IF i > Len(CLOSING_WINDOWS_HOURS) THEN acc
    ELSE LET w == CLOSING_WINDOWS_HOURS[i] IN
         IF OutsideWindow(time_left, w)
            \/ has_closing_alert_been_sent(acc.closing, pool.pool_id, WindowKey(w))
         THEN AllWindows(pool, time_left, i + 1, acc)
         ELSE AllWindows(pool, time_left, i + 1,
                [alerts  |-> Append(acc.alerts,
                               Alert("closing_soon", pool.pool_id, ClosingPriority(w),
                                     0, WindowKey(w))),
                 closing |-> record_closing_alert(acc.closing, pool.pool_id, WindowKey(w))])

ClosingStep_NoBreak(pool, acc) ==
    IF pool.end_date = NoDate \/ pool.end_date = BadDate \/ pool.end_date - now <= 0 THEN acc
    ELSE AllWindows(pool, pool.end_date - now, 1, acc)

\* check_closing_soon, one iteration of the loop over the pools.
ClosingStep(pool, acc) ==
    IF pool.end_date = NoDate THEN acc
    ELSE IF pool.end_date = BadDate THEN acc
    ELSE LET time_left == pool.end_date - now IN
         IF time_left <= 0 THEN acc
         ELSE LET w == FiringWindow(acc.closing, pool, time_left, 1) IN
              IF w = 0 THEN acc
              ELSE [alerts  |-> Append(acc.alerts,
                                  Alert("closing_soon", pool.pool_id, ClosingPriority(w),
                                        0, WindowKey(w))),
                    closing |-> record_closing_alert(acc.closing, pool.pool_id, WindowKey(w))]

RECURSIVE ClosingLoop(_, _)
ClosingLoop(current_pools, acc) ==
    IF current_pools = <<>> THEN acc
    ELSE ClosingLoop(Tail(current_pools), ClosingStep(Head(current_pools), acc))

\* check_closing_soon: the alerts returned and the closing keys it leaves.
check_closing_soon(current_pools, closing) ==
    ClosingLoop(current_pools, [alerts |-> <<>>, closing |-> closing])

-----------------------------------------------------------------------------
(* lib/telegram_sender.py *)

\* send_alerts_batch: ok is the set of positions whose delivery succeeds.
send_alerts_batch(al, ok) ==
    LET attempted == Min(Len(al), MAX_TELEGRAM_MESSAGES_PER_CYCLE)
        hit       == {i \in 1..attempted : i \in ok}
    IN  [sent      |-> Cardinality(hit),
         attempted |-> attempted,
         delivered |-> [j \in 1..Cardinality(hit) |->
                          al[CHOOSE i \in hit : Cardinality({h \in hit : h < i}) = j - 1]],
         notice    |-> Len(al) > MAX_TELEGRAM_MESSAGES_PER_CYCLE]

-----------------------------------------------------------------------------
(* lib/social_store.py: SocialStore, and the posts of the monitored profile *)

\* store.trim_seen_ids(max_size=500)
TRIM_MAX_SIZE == 500

\* An empty id or shortcode ("").
NoId == 0

\* What Apify returns for the profile: a post with id and shortcode, a post
\* with an id alone, a post with neither.
PostA == [id |-> 1001, shortcode |-> 2001]
PostB == [id |-> 1002, shortcode |-> NoId]
PostC == [id |-> NoId, shortcode |-> NoId]

\* The ids of posts seen long ago.
OldPostIds == 1..(TRIM_MAX_SIZE - 2)

\* The ids a fetched post can be known under.
NewPostIds == {PostA.id, PostA.shortcode, PostB.id}

\* A seen set of max_size members: the posts seen long ago and the two latest
\* posts as the worker has recorded them.
FullSeenIds == OldPostIds \cup {PostA.id, PostB.id}

\* The entry points that run a social cycle: api/social_monitor.py and
\* worker.py.
SocialEntryPoints == {"monitor", "worker"}

\* post.get("shortcode") or post.get("id", "") in api/social_monitor.py,
\* post.get("id") or post.get("shortcode", "") in worker.py.
PostIdOf(entry, post) ==
    IF entry = "monitor"
    THEN (IF post.shortcode # NoId THEN post.shortcode ELSE post.id)
    ELSE (IF post.id # NoId THEN post.id ELSE post.shortcode)

\* SISMEMBER
is_instagram_post_seen(seen, post_id) == post_id \in seen

\* SADD
add_seen_instagram_ids(seen, post_ids) == seen \cup post_ids

\* check_first_run: not EXISTS social:init
check_first_run(init) == ~init

\* No social cycle is running, the seen set and the init key are as given.
SocialIdle(seen, init) ==
    /\ social_seen = seen
    /\ social_init = init
    /\ social_pc = "idle"
    /\ social_entry = "monitor"
    /\ is_first = FALSE
    /\ posts = <<>>
    /\ post_idx = 0
    /\ new_ig_posts = <<>>
    /\ queued = [k \in NewPostIds |-> 0]
    /\ social_cycles = 0

-----------------------------------------------------------------------------
(* What the site serves: the results of fetch_all_pools the model draws from *)

Pool1(opts, marketEnd) == RawToPool("p1", opts, marketEnd)
Pool2(opts, marketEnd) == RawToPool("p2", opts, marketEnd)

\* A mixed site: pool p1 (closing at 18000) with none, one or both of its
\* sub-markets, sub-market 1 at two prices; pool p2 listed or not.
FetchResults ==
    LET P1 == {Pool1(<<>>, 18000),
               Pool1(<<RawToOption(1, 3000)>>, 18000),
               Pool1(<<RawToOption(1, 5000)>>, 18000),
               Pool1(<<RawToOption(1, 3000), RawToOption(2, 3000)>>, 18000)}
        P2 == {Pool2(<<RawToOption(3, 3000)>>, 0)}
    IN  {<<>>} \cup {<<a>> : a \in P1} \cup {<<b>> : b \in P2}
               \cup {<<a, b>> : a \in P1, b \in P2}

\* The scheduler's waits before a cycle, seconds.
TimeSteps == {0, 1800}

\* A site whose prices move: pool p1 without a closing time, sub-market 1 at
\* prices 0.01, 9.99, 10, 19.99 and 20 pp apart, sub-market 2 listed or not.
OddsFetchResults ==
    LET O1 == {RawToOption(1, h) : h \in {3000, 3001, 4000, 5000}}
        O2 == {RawToOption(2, h) : h \in {3000, 5000}}
    IN  {<<>>} \cup {<<Pool1(<<a>>, 0)>> : a \in O1}
               \cup {<<Pool1(<<a, b>>, 0)>> : a \in O1, b \in O2}

OddsTimeSteps == {300, 1800}

\* A site whose pools close: p1 closing at 18000 (5 h after the start), p2
\* at 90000 (25 h after the start), either without a closing time at times.
ClosingFetchResults ==
    LET P1 == {Pool1(<<RawToOption(1, 3000)>>, e) : e \in {0, 18000}}
        P2 == {Pool2(<<RawToOption(3, 3000)>>, e) : e \in {0, 90000}}
    IN  {<<>>} \cup {<<a>> : a \in P1} \cup {<<b>> : b \in P2}
               \cup {<<a, b>> : a \in P1, b \in P2}

ClosingTimeSteps == {0, 14400, 86400}

-----------------------------------------------------------------------------
(* The cycle *)

NoCycle == [status |-> "none"]

\* The identity of an alert: what it is about, whatever its priority.
AlertKey(a) == <<a.alert_type, a.pool_id, a.market_id, a.window>>

\* The record of detected alerts after the alerts al have been returned by a
\* rule at time t.
RECURSIVE Noted(_, _, _)
Noted(em, al, t) ==
    IF al = <<>> THEN em
    ELSE LET k == AlertKey(Head(al))
             n == IF k \in DOMAIN em THEN em[k].n ELSE 0
         IN  Noted(Put(em, k, [n |-> n + 1, at |-> t]), Tail(al), t)

Init ==
    /\ now = 0
    /\ redis_state = NoState
    /\ redis_init = FALSE
    /\ redis_closing = [k \in PoolIds \X WindowKeys |-> 0]
    /\ redis_cooldown = [m \in MarketIds |-> 0]
    /\ redis_error = 0
    /\ pc = [p \in Procs |-> "idle"]
    /\ store = [p \in Procs |-> NewStore]
    /\ pools = [p \in Procs |-> <<>>]
    /\ alerts = [p \in Procs |-> NoAlerts]
    /\ sent_count = [p \in Procs |-> 0]
    /\ cycles = 0
    /\ failures = 0
    /\ last = NoCycle
    /\ emitted = EmptyDict
    /\ error_alerts = [n |-> 0, at |-> 0]
    /\ SocialIdle({}, FALSE)

\* The scheduler (the QStash POST, the worker loop, the /verificar command)
\* waits d seconds and triggers a cycle when none is running: a fresh
\* RedisStore is constructed.  Keys whose TTL elapsed meanwhile are gone.
Start(p, d, maxCycles) ==
    /\ p = 1
    /\ \A q \in Procs : pc[q] = "idle"
    /\ cycles < maxCycles
    /\ now' = now + d
    /\ redis_closing' = Expire(redis_closing, now + d)
    /\ redis_cooldown' = Expire(redis_cooldown, now + d)
    /\ redis_error' = IF redis_error > now + d THEN redis_error ELSE 0
    /\ cycles' = cycles + 1
    /\ pc' = [pc EXCEPT ![p] = "load"]
    /\ store' = [store EXCEPT ![p] = NewStore]
    /\ UNCHANGED <<redis_state, redis_init, pools, alerts, sent_count, failures, last, emitted, error_alerts, socialVars>>

\* store.load_state()
LoadState(p) ==
    /\ pc[p] = "load"
    /\ store' = [store EXCEPT ![p] = load_state(store[p], redis_state, redis_init)]
    /\ pc' = [pc EXCEPT ![p] = "fetch"]
    /\ UNCHANGED <<now, redisVars, pools, alerts, sent_count, cycles, failures, last, emitted, error_alerts, socialVars>>

\* The cycle of p has ended: its outcome is noted and its locals are dropped.
Ended(p, status, at) ==
    /\ pc' = [pc EXCEPT ![p] = "idle"]
    /\ last' = [status |-> status, at |-> at, first_run |-> store[p].is_first_run,
                pools |-> pools[p], alerts |-> alerts[p], sent_count |-> sent_count[p]]
    /\ store' = [store EXCEPT ![p] = NewStore]
    /\ pools' = [pools EXCEPT ![p] = <<>>]
    /\ alerts' = [alerts EXCEPT ![p] = NoAlerts]
    /\ sent_count' = [sent_count EXCEPT ![p] = 0]

is_first_run(st) == st.is_first_run

\* Mutant: the rules run on a first run too.
AfterFetch_AlwaysDetect(st) == "new_markets"

\* Mutant: the snapshot is saved right after the fetch.
AfterFetch_SaveFirst(st) == "save"

\* if store.is_first_run(): skip the rules, else run them.
AfterFetch(st) == IF is_first_run(st) THEN "send" ELSE "new_markets"

\* Mutant: an empty result does not end the cycle.
FetchAllPools_NoEarlyReturn(p, pl) ==
    /\ pc[p] = "fetch"
    /\ pools' = [pools EXCEPT ![p] = pl]
    /\ pc' = [pc EXCEPT ![p] = AfterFetch(store[p])]
    /\ UNCHANGED <<now, redisVars, store, alerts, sent_count, cycles, failures, last, emitted, error_alerts, socialVars>>

\* pools = scraper.fetch_all_pools(); an empty result ends the cycle with a
\* warning.
FetchAllPools(p, pl) ==
    /\ pc[p] = "fetch"
    /\ IF pl = <<>>
       THEN /\ Ended(p, "warning", "fetch")
            /\ UNCHANGED <<now, redisVars, cycles, failures, emitted, error_alerts, socialVars>>
       ELSE /\ pools' = [pools EXCEPT ![p] = pl]
            /\ pc' = [pc EXCEPT ![p] = AfterFetch(store[p])]
            /\ UNCHANGED <<now, redisVars, store, alerts, sent_count, cycles, failures, last, emitted, error_alerts, socialVars>>

\* Mutant: the rule marks the pools it alerts as known in the store's copy.
CheckNewMarkets_MarksKnown(p) ==
    /\ pc[p] = "new_markets"
    /\ alerts' = [alerts EXCEPT ![p] = @ \o check_new_markets(store[p], pools[p])]
    /\ emitted' = Noted(emitted, check_new_markets(store[p], pools[p]), now)
    /\ store' = [store EXCEPT ![p].known_pool_ids =
                    @ \cup {pools[p][i].pool_id : i \in DOMAIN pools[p]}]
    /\ pc' = [pc EXCEPT ![p] = "odds"]
    /\ UNCHANGED <<now, redisVars, pools, sent_count, cycles, failures, last, error_alerts, socialVars>>

\* alerts.extend(detector.check_new_markets(pools))
CheckNewMarkets(p) ==
    /\ pc[p] = "new_markets"
    /\ alerts' = [alerts EXCEPT ![p] = @ \o check_new_markets(store[p], pools[p])]
    /\ emitted' = Noted(emitted, check_new_markets(store[p], pools[p]), now)
    /\ pc' = [pc EXCEPT ![p] = "odds"]
    /\ UNCHANGED <<now, redisVars, store, pools, sent_count, cycles, failures, last, error_alerts, socialVars>>

\* alerts.extend(detector.check_odds_changes(pools))
CheckOddsChanges(p) ==
    /\ pc[p] = "odds"
    /\ LET r == check_odds_changes(store[p], pools[p], redis_cooldown) IN
         /\ alerts' = [alerts EXCEPT ![p] = @ \o r.alerts]
         /\ redis_cooldown' = r.cooldown
         /\ emitted' = Noted(emitted, r.alerts, now)
    /\ pc' = [pc EXCEPT ![p] = "closing"]
    /\ UNCHANGED <<now, redis_state, redis_init, redis_closing, redis_error,
                   store, pools, sent_count, cycles, failures, last, error_alerts, socialVars>>

\* Mutant: the closing alerts are put in front of the list.
CheckClosingSoon_Prepends(p) ==
    /\ pc[p] = "closing"
    /\ LET r == check_closing_soon(pools[p], redis_closing) IN
         /\ alerts' = [alerts EXCEPT ![p] = r.alerts \o @]
         /\ redis_closing' = r.closing
         /\ emitted' = Noted(emitted, r.alerts, now)
    /\ pc' = [pc EXCEPT ![p] = "send"]
    /\ UNCHANGED <<now, redis_state, redis_init, redis_cooldown, redis_error,
                   store, pools, sent_count, cycles, failures, last, error_alerts, socialVars>>

\* alerts.extend(detector.check_closing_soon(pools))
CheckClosingSoon(p) ==
    /\ pc[p] = "closing"
    /\ LET r == check_closing_soon(pools[p], redis_closing) IN
         /\ alerts' = [alerts EXCEPT ![p] = @ \o r.alerts]
         /\ redis_closing' = r.closing
         /\ emitted' = Noted(emitted, r.alerts, now)
    /\ pc' = [pc EXCEPT ![p] = "send"]
    /\ UNCHANGED <<now, redis_state, redis_init, redis_cooldown, redis_error,
                   store, pools, sent_count, cycles, failures, last, error_alerts, socialVars>>

\* The option reaches the redis commands of check_odds_changes.
ReachesCooldownCheck(st, opt) ==
    /\ HasSnapshot(st, opt.market_id)
    /\ ~BelowThreshold(opt.yes_pct - get_latest_snapshot(st, opt.market_id).yes_pct)

\* The pool reaches the redis commands of check_closing_soon.
ReachesClosingCheck(pool) ==
    /\ pool.end_date # NoDate
    /\ pool.end_date # BadDate
    /\ pool.end_date - now > 0
    /\ \E i \in DOMAIN CLOSING_WINDOWS_HOURS :
          ~OutsideWindow(pool.end_date - now, CLOSING_WINDOWS_HOURS[i])

\* A redis command of check_odds_changes or check_closing_soon raises when k
\* items of its loop have been handled: the keys recorded so far stay, the
\* rule returns nothing and the exception leaves the cycle.
DetectionRaises(p, k, maxFailures) ==
    /\ pc[p] \in {"odds", "closing"}
    /\ failures < maxFailures
    /\ failures' = failures + 1
    /\ IF pc[p] = "odds"
       THEN LET items == OptionItems(pools[p]) IN
            /\ k < Len(items)
            /\ ReachesCooldownCheck(store[p], items[k + 1].opt)
            /\ redis_cooldown' = OddsLoop(store[p], SubSeq(items, 1, k),
                                     [alerts |-> <<>>, cooldown |-> redis_cooldown]).cooldown
            /\ UNCHANGED redis_closing
       ELSE /\ k < Len(pools[p])
            /\ ReachesClosingCheck(pools[p][k + 1])
            /\ redis_closing' = ClosingLoop(SubSeq(pools[p], 1, k),
                                     [alerts |-> <<>>, closing |-> redis_closing]).closing
            /\ UNCHANGED redis_cooldown
    /\ pc' = [pc EXCEPT ![p] = "failed"]
    /\ UNCHANGED <<now, redis_state, redis_init, redis_error,
                   store, pools, alerts, sent_count, cycles, last, emitted, error_alerts, socialVars>>

\* if alerts: sent_count = sender.send_alerts_batch(alerts); ok is the set of
\* positions whose delivery succeeds.
SendAlerts(p, ok) ==
    /\ pc[p] = "send"
    /\ sent_count' = [sent_count EXCEPT ![p] = send_alerts_batch(alerts[p], ok).sent]
    /\ pc' = [pc EXCEPT ![p] = "save"]
    /\ UNCHANGED <<now, redisVars, store, pools, alerts, cycles, failures, last, emitted, error_alerts, socialVars>>

\* Mutant: the hash is written only when every alert was delivered.
SaveState_OnlyWhenDelivered(p) ==
    /\ pc[p] = "save"
    /\ LET st == MergeState(store[p], pools[p], now) IN
         /\ redis_state' = IF sent_count[p] < Len(alerts[p]) THEN redis_state
                           ELSE DumpState(st)
         /\ store' = [store EXCEPT ![p] = st]
    /\ pc' = [pc EXCEPT ![p] = "mark_init"]
    /\ UNCHANGED <<now, redis_init, redis_closing, redis_cooldown, redis_error,
                   pools, alerts, sent_count, cycles, failures, last, emitted, error_alerts, socialVars>>

\* Mutant: the init key is set where the hash should be written.
SaveState_MarksFirst(p) ==
    /\ pc[p] = "save"
    /\ redis_init' = IF is_first_run(store[p]) THEN TRUE ELSE redis_init
    /\ store' = [store EXCEPT ![p] = MergeState(store[p], pools[p], now)]
    /\ pc' = [pc EXCEPT ![p] = "mark_init"]
    /\ UNCHANGED <<now, redis_state, redis_closing, redis_cooldown, redis_error,
                   pools, alerts, sent_count, cycles, failures, last, emitted, error_alerts, socialVars>>

\* Mutant: the save merges the pools into the hash as it is in redis now.
SaveState_MergesPersisted(p) ==
    /\ pc[p] = "save"
    /\ LET base == IF redis_state = NoState THEN store[p]
                   ELSE [load_state(store[p], redis_state, redis_init)
                            EXCEPT !.is_first_run = store[p].is_first_run]
           st   == MergeState(base, pools[p], now)
       IN  /\ redis_state' = DumpState(st)
           /\ store' = [store EXCEPT ![p] = st]
    /\ pc' = [pc EXCEPT ![p] = "mark_init"]
    /\ UNCHANGED <<now, redis_init, redis_closing, redis_cooldown, redis_error,
                   pools, alerts, sent_count, cycles, failures, last, emitted, error_alerts, socialVars>>

\* store.save_state(pools), up to and including the HSET.
SaveState(p) ==
    /\ pc[p] = "save"
    /\ LET st == MergeState(store[p], pools[p], now) IN
         /\ redis_state' = DumpState(st)
         /\ store' = [store EXCEPT ![p] = st]
    /\ pc' = [pc EXCEPT ![p] = "mark_init"]
    /\ UNCHANGED <<now, redis_init, redis_closing, redis_cooldown, redis_error,
                   pools, alerts, sent_count, cycles, failures, last, emitted, error_alerts, socialVars>>

\* save_state, its end: the init key is set on a first run; the cycle returns.
MarkInitialized(p) ==
    /\ pc[p] = "mark_init"
    /\ redis_init' = IF is_first_run(store[p]) THEN TRUE ELSE redis_init
    /\ Ended(p, "ok", "end")
    /\ UNCHANGED <<now, redis_state, redis_closing, redis_cooldown, redis_error, cycles, failures, emitted, error_alerts, socialVars>>

\* A redis command of load_state or save_state raises (store I/O failure).
StoreRaises(p, maxFailures) ==
    /\ pc[p] \in {"load", "save", "mark_init"}
    /\ pc[p] = "mark_init" => is_first_run(store[p])
    /\ failures < maxFailures
    /\ failures' = failures + 1
    /\ pc' = [pc EXCEPT ![p] = "failed_" \o pc[p]]
    /\ UNCHANGED <<now, redisVars, store, pools, alerts, sent_count, cycles, last, emitted, error_alerts, socialVars>>

FailedAt == {"failed", "failed_load", "failed_save", "failed_mark_init"}

\* The except clause of the entry point: the monitor endpoint and the worker
\* send a system-error notification unless its cooldown key exists, and then
\* record the key; /verificar only replies to the chat.
HandleError(p, entry) ==
    /\ pc[p] \in FailedAt
    /\ IF entry # "verificar" /\ can_send_error_alert
       THEN /\ error_alerts' = [n |-> error_alerts.n + 1, at |-> now]
            /\ redis_error' = now + ERROR_TTL
       ELSE UNCHANGED <<error_alerts, redis_error>>
    /\ Ended(p, "failed", pc[p])
    /\ UNCHANGED <<now, redis_state, redis_init, redis_closing, redis_cooldown, cycles, failures,
                   emitted, socialVars>>

\* The steps of the system, for a site serving F, a scheduler waiting one of
\* T, at most n cycles and at most f exceptions.
NextOf(F, T, n, f) ==
    \/ \E p \in Procs, d \in T : Start(p, d, n)
    \/ \E p \in Procs : LoadState(p)
    \/ \E p \in Procs, pl \in F : FetchAllPools(p, pl)
    \/ \E p \in Procs : CheckNewMarkets(p)
    \/ \E p \in Procs : CheckOddsChanges(p)
    \/ \E p \in Procs : CheckClosingSoon(p)
    \/ \E p \in Procs, k \in 0..Cardinality(MarketIds) : DetectionRaises(p, k, f)
    \/ \E p \in Procs :
         \E ok \in SUBSET (1..Min(Len(alerts[p]), MAX_TELEGRAM_MESSAGES_PER_CYCLE)) :
            SendAlerts(p, ok)
    \/ \E p \in Procs : StoreRaises(p, f)
    \/ \E p \in Procs : SaveState(p)
    \/ \E p \in Procs : MarkInitialized(p)
    \/ \E p \in Procs, entry \in EntryPoints : HandleError(p, entry)

Next == NextOf(FetchResults, TimeSteps, MaxCycles, MaxFailures)

Spec == Init /\ [][Next]_vars

\* The site whose prices move.
SpecOdds == Init /\ [][NextOf(OddsFetchResults, OddsTimeSteps, MaxCycles, MaxFailures)]_vars

\* The site whose pools close.
SpecClosing == Init /\ [][NextOf(ClosingFetchResults, ClosingTimeSteps, MaxCycles, MaxFailures)]_vars

\* A site whose listings come and go: pool p1 with or without its second
\* sub-market, pool p2 listed or not; five minutes between cycles, one more
\* cycle than usual.
ReappearFetchResults ==
    {<<>>,
     <<Pool1(<<RawToOption(1, 3000)>>, 18000)>>,
     <<Pool1(<<RawToOption(1, 3000), RawToOption(2, 3000)>>, 18000)>>,
     <<Pool1(<<RawToOption(1, 3000)>>, 18000), Pool2(<<RawToOption(3, 3000)>>, 0)>>}

ReappearTimeSteps == {300}

SpecReappear ==
    Init /\ [][NextOf(ReappearFetchResults, ReappearTimeSteps, MaxCycles + 1, MaxFailures)]_vars

\* A site whose price creeps: sub-market 1 of pool p1 at 30, then at 36 and
\* at 42 with sub-market 2 listed, or at 50 with pool p2 listed; one more
\* cycle than usual.
BaselineFetchResults ==
    {<<Pool1(<<RawToOption(1, 3000)>>, 0)>>,
     <<Pool1(<<RawToOption(1, 3600), RawToOption(2, 3000)>>, 0)>>,
     <<Pool1(<<RawToOption(1, 4200), RawToOption(2, 3000)>>, 0)>>,
     <<Pool1(<<RawToOption(1, 5000)>>, 0), Pool2(<<RawToOption(3, 3000)>>, 0)>>}

BaselineTimeSteps == {300, 1800}

SpecBaseline ==
    Init /\ [][NextOf(BaselineFetchResults, BaselineTimeSteps, MaxCycles + 1, MaxFailures)]_vars

\* A site with a pool in its last hour: p1 closes at 3600 and is seen from
\* the first cycle on, alone or with a pool without closing time; five or
\* ten minutes between cycles, two more cycles than usual.
LastHourFetchResults ==
    {<<Pool1(<<RawToOption(1, 3000)>>, 3600)>>,
     <<Pool1(<<RawToOption(1, 3000)>>, 3600), Pool2(<<RawToOption(3, 3000)>>, 0)>>}

LastHourTimeSteps == {300, 600}

SpecLastHour ==
    Init /\ [][NextOf(LastHourFetchResults, LastHourTimeSteps, MaxCycles + 2, MaxFailures)]_vars

-----------------------------------------------------------------------------
(* Overlapping cycles: nothing in the entry points keeps a second cycle from *)
(* running while one is in flight, and check_odds_changes issues its EXISTS  *)
(* and its SET as two redis commands.                                        *)

\* The positions inside the loop of check_odds_changes: before the EXISTS of
\* item i, and between the EXISTS and the SET of item i.
OddsExistsAt(i) == "odds_exists_" \o ToString(i)
OddsRecordAt(i) == "odds_record_" \o ToString(i)

\* The position after item i of the loop.
OddsAfter(p, i) ==
    IF i < Len(OptionItems(pools[p])) THEN OddsExistsAt(i + 1) ELSE "closing"

\* An entry point is triggered while a cycle is in flight (the worker loop,
\* the QStash POST and /verificar do not know of each other).
StartOverlapping(p, maxCycles) ==
    /\ pc[p] = "idle"
    /\ \E q \in Procs : pc[q] # "idle"
    /\ cycles < maxCycles
    /\ cycles' = cycles + 1
    /\ pc' = [pc EXCEPT ![p] = "load"]
    /\ store' = [store EXCEPT ![p] = NewStore]
    /\ UNCHANGED <<now, redisVars, pools, alerts, sent_count, failures, last, emitted, error_alerts, socialVars>>

\* check_odds_changes is entered: the loops start at the first option.
OddsEnter(p) ==
    /\ pc[p] = "odds"
    /\ pc' = [pc EXCEPT ![p] = IF OptionItems(pools[p]) = <<>> THEN "closing"
                                ELSE OddsExistsAt(1)]
    /\ UNCHANGED <<now, redisVars, store, pools, alerts, sent_count, cycles, failures,
                   last, emitted, error_alerts, socialVars>>

\* One iteration up to and including is_odds_on_cooldown (the EXISTS).
OddsExists(p, i) ==
    /\ pc[p] = OddsExistsAt(i)
    /\ i \in DOMAIN OptionItems(pools[p])
    /\ LET opt == OptionItems(pools[p])[i].opt IN
       pc' = [pc EXCEPT ![p] =
                IF ReachesCooldownCheck(store[p], opt)
                   /\ ~is_odds_on_cooldown(redis_cooldown, opt.market_id)
                THEN OddsRecordAt(i)
                ELSE OddsAfter(p, i)]
    /\ UNCHANGED <<now, redisVars, store, pools, alerts, sent_count, cycles, failures,
                   last, emitted, error_alerts, socialVars>>

\* Mutant: the alert is appended and the key is not recorded.
OddsRecord_NoKey(p, i) ==
    /\ pc[p] = OddsRecordAt(i)
    /\ i \in DOMAIN OptionItems(pools[p])
    /\ LET item == OptionItems(pools[p])[i]
           a    == Alert("odds_change", item.pool_id,
                         OddsPriority(item.opt.yes_pct
                            - get_latest_snapshot(store[p], item.opt.market_id).yes_pct),
                         item.opt.market_id, "")
       IN  /\ alerts' = [alerts EXCEPT ![p] = Append(@, a)]
           /\ emitted' = Noted(emitted, <<a>>, now)
    /\ pc' = [pc EXCEPT ![p] = OddsAfter(p, i)]
    /\ UNCHANGED <<now, redisVars, store, pools, sent_count, cycles, failures, last, error_alerts, socialVars>>

\* The rest of the iteration: record_odds_cooldown (the SET) and the alert.
OddsRecord(p, i) ==
    /\ pc[p] = OddsRecordAt(i)
    /\ i \in DOMAIN OptionItems(pools[p])
    /\ LET item == OptionItems(pools[p])[i]
           a    == Alert("odds_change", item.pool_id,
                         OddsPriority(item.opt.yes_pct
                            - get_latest_snapshot(store[p], item.opt.market_id).yes_pct),
                         item.opt.market_id, "")
       IN  /\ redis_cooldown' = record_odds_cooldown(redis_cooldown, item.opt.market_id)
           /\ alerts' = [alerts EXCEPT ![p] = Append(@, a)]
           /\ emitted' = Noted(emitted, <<a>>, now)
    /\ pc' = [pc EXCEPT ![p] = OddsAfter(p, i)]
    /\ UNCHANGED <<now, redis_state, redis_init, redis_closing, redis_error,
                   store, pools, sent_count, cycles, failures, last, error_alerts, socialVars>>

\* A site with one pool, its sub-market 1 at two prices 20 pp apart and its
\* sub-market 2 listed or not.
OverlapFetchResults ==
    {<<>>} \cup {<<Pool1(<<RawToOption(1, h)>>, 18000)>> : h \in {3000, 5000}}
           \cup {<<Pool1(<<RawToOption(1, h), RawToOption(2, 3000)>>, 18000)>> : h \in {3000, 5000}}

OverlapTimeSteps == {0, 1800}

\* The steps of the system when cycles may overlap.
NextOverlapping(F, T, n, f) ==
    \/ \E p \in Procs, d \in T : Start(p, d, n)
    \/ \E p \in Procs : StartOverlapping(p, n)
    \/ \E p \in Procs : LoadState(p)
    \/ \E p \in Procs, pl \in F : FetchAllPools(p, pl)
    \/ \E p \in Procs : CheckNewMarkets(p)
    \/ \E p \in Procs : OddsEnter(p)
    \/ \E p \in Procs, i \in 1..Cardinality(MarketIds) : OddsExists(p, i)
    \/ \E p \in Procs, i \in 1..Cardinality(MarketIds) : OddsRecord(p, i)
    \/ \E p \in Procs : CheckClosingSoon(p)
    \/ \E p \in Procs, k \in 0..Cardinality(MarketIds) : DetectionRaises(p, k, f)
    \/ \E p \in Procs :
         \E ok \in SUBSET (1..Min(Len(alerts[p]), MAX_TELEGRAM_MESSAGES_PER_CYCLE)) :
            SendAlerts(p, ok)
    \/ \E p \in Procs : StoreRaises(p, f)
    \/ \E p \in Procs : SaveState(p)
    \/ \E p \in Procs : MarkInitialized(p)
    \/ \E p \in Procs, entry \in EntryPoints : HandleError(p, entry)

\* Cycles that may overlap.
SpecOverlap == Init /\ [][NextOverlapping(OverlapFetchResults, OverlapTimeSteps, MaxCycles,
                                         MaxFailures)]_vars

\* A site that lists pool p1 alone or, at another price, with pool p2, seen
\* by cycles that overlap, one more cycle than usual.
SaveFetchResults ==
    {<<>>,
     <<Pool1(<<RawToOption(1, 3000)>>, 18000)>>,
     <<Pool1(<<RawToOption(1, 5000)>>, 18000), Pool2(<<RawToOption(3, 3000)>>, 0)>>}

NoWait == {0}

SpecLostUpdate ==
    Init /\ [][NextOverlapping(SaveFetchResults, NoWait, MaxCycles + 1, MaxFailures)]_vars

\* Cycles that keep failing: one pool, its sub-market at two prices, waits
\* shorter than and equal to the error cooldown, one more cycle and two more
\* exceptions than usual.
FailingFetchResults ==
    {<<>>} \cup {<<Pool1(<<RawToOption(1, h)>>, 18000)>> : h \in {3000, 5000}}

FailingTimeSteps == {0, 300, 600}

SpecFailing ==
    Init /\ [][NextOf(FailingFetchResults, FailingTimeSteps, MaxCycles + 1,
                      MaxFailures + 2)]_vars

-----------------------------------------------------------------------------
(* send_alerts_batch, message by message *)

\* The longest alert list handed to the sender.
MaxAlerts == 22

\* The positions inside send_alerts_batch: before the attempt of alert i, and
\* before the notice about the alerts left out.
SendAt(i) == "send_" \o ToString(i)
SendNoticeAt == "send_notice"

\* alerts[:config.MAX_TELEGRAM_MESSAGES_PER_CYCLE]
Capped(al) == SubSeq(al, 1, Min(Len(al), MAX_TELEGRAM_MESSAGES_PER_CYCLE))

\* if alerts: sent_count = sender.send_alerts_batch(alerts)
SendEnter(p) ==
    /\ pc[p] = "send"
    /\ sent_count' = [sent_count EXCEPT ![p] = 0]
    /\ pc' = [pc EXCEPT ![p] = IF alerts[p] = <<>> THEN "save" ELSE SendAt(1)]
    /\ UNCHANGED <<now, redisVars, store, pools, alerts, cycles, failures, last, emitted,
                   error_alerts, socialVars>>

\* Mutant: the loop ends at the first delivery that fails.
SendOne_StopsOnFailure(p, i, delivered) ==
    /\ pc[p] = SendAt(i)
    /\ i \in DOMAIN Capped(alerts[p])
    /\ sent_count' = [sent_count EXCEPT ![p] = IF delivered THEN @ + 1 ELSE @]
    /\ pc' = [pc EXCEPT ![p] =
                IF ~delivered THEN "save"
                ELSE IF i < Len(Capped(alerts[p])) THEN SendAt(i + 1)
                ELSE IF Len(alerts[p]) > MAX_TELEGRAM_MESSAGES_PER_CYCLE THEN SendNoticeAt
                ELSE "save"]
    /\ UNCHANGED <<now, redisVars, store, pools, alerts, cycles, failures, last, emitted,
                   error_alerts, socialVars>>

\* One iteration of the loop: send_alert(alert) succeeds or fails, the loop
\* goes on; after the last one the notice follows when alerts were left out.
SendOne(p, i, delivered) ==
    /\ pc[p] = SendAt(i)
    /\ i \in DOMAIN Capped(alerts[p])
    /\ sent_count' = [sent_count EXCEPT ![p] = IF delivered THEN @ + 1 ELSE @]
    /\ pc' = [pc EXCEPT ![p] =
                IF i < Len(Capped(alerts[p])) THEN SendAt(i + 1)
                ELSE IF Len(alerts[p]) > MAX_TELEGRAM_MESSAGES_PER_CYCLE THEN SendNoticeAt
                ELSE "save"]
    /\ UNCHANGED <<now, redisVars, store, pools, alerts, cycles, failures, last, emitted,
                   error_alerts, socialVars>>

\* The notice "N alertas adicionais foram suprimidos": one more message,
\* whose result is not counted; send_alerts_batch returns.
SendNotice(p) ==
    /\ pc[p] = SendNoticeAt
    /\ pc' = [pc EXCEPT ![p] = "save"]
    /\ UNCHANGED <<now, redisVars, store, pools, alerts, sent_count, cycles, failures, last,
                   emitted, error_alerts, socialVars>>

\* Pools the site lists beyond p1, as many as needed.
ExtraPool(i) == [pool_id |-> "pool" \o ToString(i), end_date |-> NoDate, options |-> <<>>]

\* The store of a cycle that knows pool p1 alone.
KnowsPool1 == load_state(NewStore, DumpState(MergeState(NewStore, <<Pool1(<<>>, 0)>>, 0)), TRUE)

\* A cycle at the send with n alerts: the site lists p1 and n pools the
\* snapshot does not know, and check_new_markets has returned their alerts.
InitSend ==
    /\ now = 0
    /\ redis_state = DumpState(KnowsPool1)
    /\ redis_init = TRUE
    /\ redis_closing = [k \in PoolIds \X WindowKeys |-> 0]
    /\ redis_cooldown = [m \in MarketIds |-> 0]
    /\ redis_error = 0
    /\ \E n \in 0..MaxAlerts :
          /\ pools = [p \in Procs |-> IF p = 1
                                      THEN <<Pool1(<<>>, 0)>> \o [i \in 1..n |-> ExtraPool(i)]
                                      ELSE <<>>]
          /\ alerts = [p \in Procs |-> IF p = 1
                                       THEN check_new_markets(KnowsPool1,
                                               [i \in 1..n |-> ExtraPool(i)])
                                       ELSE NoAlerts]
    /\ pc = [p \in Procs |-> IF p = 1 THEN "send" ELSE "idle"]
    /\ store = [p \in Procs |-> IF p = 1 THEN KnowsPool1 ELSE NewStore]
    /\ sent_count = [p \in Procs |-> 0]
    /\ cycles = 1
    /\ failures = 0
    /\ last = NoCycle
    /\ emitted = EmptyDict
    /\ error_alerts = [n |-> 0, at |-> 0]
    /\ SocialIdle({}, FALSE)

NextSend ==
    \/ \E p \in Procs : SendEnter(p)
    \/ \E p \in Procs, i \in 1..MAX_TELEGRAM_MESSAGES_PER_CYCLE, delivered \in BOOLEAN :
          SendOne(p, i, delivered)
    \/ \E p \in Procs : SendNotice(p)

\* send_alerts_batch on lists of up to MaxAlerts alerts.
SpecSend == InitSend /\ [][NextSend]_vars

\* Sub-markets the site adds to pool p1, as many as needed.
ExtraOption(i) == RawToOption(100 + i, 3000)

\* A site that lists pool p1 (closing at 18000) with one sub-market and then,
\* at a price 20 pp higher, with as many more sub-markets as make the alert
\* list MaxAlerts long (the new options, the odds change, the closing).
UndeliveredFetchResults ==
    {<<Pool1(<<RawToOption(1, 3000)>>, 18000)>>,
     <<Pool1(<<RawToOption(1, 5000)>> \o [i \in 1..(MaxAlerts - 2) |-> ExtraOption(i)], 18000)>>}

UndeliveredTimeSteps == {300}

\* Cycles whose send is taken message by message.
NextUndelivered ==
    \/ \E p \in Procs, d \in UndeliveredTimeSteps : Start(p, d, MaxCycles)
    \/ \E p \in Procs : LoadState(p)
    \/ \E p \in Procs, pl \in UndeliveredFetchResults : FetchAllPools(p, pl)
    \/ \E p \in Procs : CheckNewMarkets(p)
    \/ \E p \in Procs : CheckOddsChanges(p)
    \/ \E p \in Procs : CheckClosingSoon(p)
    \/ \E p \in Procs : SendEnter(p)
    \/ \E p \in Procs, i \in 1..MAX_TELEGRAM_MESSAGES_PER_CYCLE, delivered \in BOOLEAN :
          SendOne(p, i, delivered)
    \/ \E p \in Procs : SendNotice(p)
    \/ \E p \in Procs : SaveState(p)
    \/ \E p \in Procs : MarkInitialized(p)

SpecUndelivered == Init /\ [][NextUndelivered]_vars

-----------------------------------------------------------------------------
(* check_closing_soon on pools of every kind *)

\* The end dates a pool handed to the rule may carry: none, one that does
\* not parse, 18000 and 90000.
ClosingRuleEndDates == {NoDate, BadDate, 18000, 90000}

\* The times the rule runs at: 5 h and 1 h before p1 closes, when it closes,
\* and after.
ClosingRuleTimes == {0, 14400, 18000, 86400}

ClosingRulePools ==
    LET P1 == {[pool_id |-> "p1", end_date |-> e, options |-> <<RawToOption(1, 3000)>>] :
                  e \in ClosingRuleEndDates}
        P2 == {[pool_id |-> "p2", end_date |-> e, options |-> <<RawToOption(3, 3000)>>] :
                  e \in ClosingRuleEndDates}
    IN  {<<a>> : a \in P1} \cup {<<a, b>> : a \in P1, b \in P2}

\* A cycle about to run check_closing_soon, with no closing key or with the
\* 24h key of p1 recorded an hour before.
InitClosingRule ==
    /\ now \in ClosingRuleTimes
    /\ redis_state = DumpState(KnowsPool1)
    /\ redis_init = TRUE
    /\ \E sent \in BOOLEAN :
          redis_closing = [k \in PoolIds \X WindowKeys |->
                             IF sent /\ k = <<"p1", WindowKey(24)>>
                             THEN now - 3600 + CLOSING_TTL ELSE 0]
    /\ redis_cooldown = [m \in MarketIds |-> 0]
    /\ redis_error = 0
    /\ \E pl \in ClosingRulePools : pools = [p \in Procs |-> IF p = 1 THEN pl ELSE <<>>]
    /\ alerts = [p \in Procs |-> NoAlerts]
    /\ pc = [p \in Procs |-> IF p = 1 THEN "closing" ELSE "idle"]
    /\ store = [p \in Procs |-> IF p = 1 THEN KnowsPool1 ELSE NewStore]
    /\ sent_count = [p \in Procs |-> 0]
    /\ cycles = 1
    /\ failures = 0
    /\ last = NoCycle
    /\ emitted = EmptyDict
    /\ error_alerts = [n |-> 0, at |-> 0]
    /\ SocialIdle({}, FALSE)

NextClosingRule == \E p \in Procs : CheckClosingSoon(p)

SpecClosingRule == InitClosingRule /\ [][NextClosingRule]_vars

-----------------------------------------------------------------------------
(* The social cycle: run_social_cycle of api/social_monitor.py and worker.py *)

marketVars == <<now, redis_state, redis_init, redis_closing, redis_cooldown, redis_error,
                pc, store, pools, alerts, sent_count, cycles, failures, last, emitted,
                error_alerts>>

\* What fetch_latest_posts returns: nothing (also on any Apify error), or up
\* to three of the latest posts.
SocialFetchResults ==
    {<<>>, <<PostA>>, <<PostB, PostA>>, <<PostC, PostB>>, <<PostA, PostC, PostA>>}

\* The cron, the manual POST or the worker loop starts a social cycle.
SocialStart(entry) ==
    /\ social_pc = "idle"
    /\ social_cycles < MaxCycles
    /\ social_cycles' = social_cycles + 1
    /\ social_entry' = entry
    /\ social_pc' = "check_first_run"
    /\ is_first' = FALSE
    /\ posts' = <<>>
    /\ post_idx' = 0
    /\ new_ig_posts' = <<>>
    /\ UNCHANGED <<marketVars, social_seen, social_init, queued>>

\* is_first = store.check_first_run()
CheckFirstRun ==
    /\ social_pc = "check_first_run"
    /\ is_first' = check_first_run(social_init)
    /\ social_pc' = "fetch"
    /\ UNCHANGED <<marketVars, social_seen, social_init, social_entry, posts, post_idx,
                   new_ig_posts, queued, social_cycles>>

\* posts = scraper.fetch_latest_posts(username, max_posts=5), for the one
\* monitored profile; without posts the loop body is left.
FetchLatestPosts(pl) ==
    /\ social_pc = "fetch"
    /\ posts' = pl
    /\ post_idx' = 1
    /\ social_pc' = IF pl = <<>> THEN "send" ELSE "posts"
    /\ UNCHANGED <<marketVars, social_seen, social_init, social_entry, is_first,
                   new_ig_posts, queued, social_cycles>>

\* Mutant: a post is queued on a first run too.
ProcessPost_QueuesOnFirstRun ==
    /\ social_pc = "posts"
    /\ post_idx \in DOMAIN posts
    /\ LET post    == posts[post_idx]
           post_id == PostIdOf(social_entry, post)
       IN  IF post_id = NoId \/ is_instagram_post_seen(social_seen, post_id)
           THEN UNCHANGED <<social_seen, new_ig_posts, queued>>
           ELSE /\ social_seen' = add_seen_instagram_ids(social_seen, {post_id})
                /\ new_ig_posts' = Append(new_ig_posts, post)
                /\ queued' = [queued EXCEPT ![post_id] = @ + 1]
    /\ post_idx' = post_idx + 1
    /\ social_pc' = IF post_idx < Len(posts) THEN "posts" ELSE "send"
    /\ UNCHANGED <<marketVars, social_init, social_entry, is_first, posts, social_cycles>>

\* One iteration of the loop over the posts: a post without id is skipped; a
\* post not seen is queued unless this is the first run, and marked seen.
ProcessPost ==
    /\ social_pc = "posts"
    /\ post_idx \in DOMAIN posts
    /\ LET post    == posts[post_idx]
           post_id == PostIdOf(social_entry, post)
       IN  IF post_id = NoId \/ is_instagram_post_seen(social_seen, post_id)
           THEN UNCHANGED <<social_seen, new_ig_posts, queued>>
           ELSE /\ social_seen' = add_seen_instagram_ids(social_seen, {post_id})
                /\ IF is_first
                   THEN UNCHANGED <<new_ig_posts, queued>>
                   ELSE /\ new_ig_posts' = Append(new_ig_posts, post)
                        /\ queued' = [queued EXCEPT ![post_id] = @ + 1]
    /\ post_idx' = post_idx + 1
    /\ social_pc' = IF post_idx < Len(posts) THEN "posts" ELSE "send"
    /\ UNCHANGED <<marketVars, social_init, social_entry, is_first, posts, social_cycles>>

\* sender.send_new_posts_batch(new_ig_posts, new_tweets) when there is a
\* post; if is_first: store.mark_initialized(); store.update_meta().  The
\* endpoint goes on to trim the seen sets, the worker returns.
SendAndMark ==
    /\ social_pc = "send"
    /\ social_init' = IF is_first THEN TRUE ELSE social_init
    /\ social_pc' = IF social_entry = "monitor" THEN "trim" ELSE "idle"
    /\ UNCHANGED <<marketVars, social_seen, social_entry, is_first, posts, post_idx,
                   new_ig_posts, queued, social_cycles>>

\* store.trim_seen_ids(max_size=500): while the set is larger than max_size
\* one SPOP removes a member, any member; then the cycle returns.
TrimSeenIds ==
    /\ social_pc = "trim"
    /\ IF Cardinality(social_seen) > TRIM_MAX_SIZE
       THEN /\ \E x \in social_seen : social_seen' = social_seen \ {x}
            /\ UNCHANGED social_pc
       ELSE /\ social_pc' = "idle"
            /\ UNCHANGED social_seen
    /\ UNCHANGED <<marketVars, social_init, social_entry, is_first, posts, post_idx,
                   new_ig_posts, queued, social_cycles>>

\* The social monitor before its first cycle, or after it has run for long:
\* the init key set and the seen set at max_size.
InitSocial ==
    /\ now = 0
    /\ redis_state = NoState
    /\ redis_init = FALSE
    /\ redis_closing = [k \in PoolIds \X WindowKeys |-> 0]
    /\ redis_cooldown = [m \in MarketIds |-> 0]
    /\ redis_error = 0
    /\ pc = [p \in Procs |-> "idle"]
    /\ store = [p \in Procs |-> NewStore]
    /\ pools = [p \in Procs |-> <<>>]
    /\ alerts = [p \in Procs |-> NoAlerts]
    /\ sent_count = [p \in Procs |-> 0]
    /\ cycles = 0
    /\ failures = 0
    /\ last = NoCycle
    /\ emitted = EmptyDict
    /\ error_alerts = [n |-> 0, at |-> 0]
    /\ \/ SocialIdle({}, FALSE)
       \/ SocialIdle(FullSeenIds, TRUE)

NextSocial ==
    \/ \E entry \in SocialEntryPoints : SocialStart(entry)
    \/ CheckFirstRun
    \/ \E pl \in SocialFetchResults : FetchLatestPosts(pl)
    \/ ProcessPost
    \/ SendAndMark
    \/ TrimSeenIds

SpecSocial == InitSocial /\ [][NextSocial]_vars

-----------------------------------------------------------------------------
(* Properties *)

Active == {p \in Procs : pc[p] # "idle"}

AllIdle == \A p \in Procs : pc[p] = "idle"

PoolIdsOf(pl) == {pl[i].pool_id : i \in DOMAIN pl}

\* The positions of the alerts of a type about a pool and an option.
AlertsFor(al, type, pid, mid) ==
    {i \in DOMAIN al : al[i].alert_type = type /\ al[i].pool_id = pid /\ al[i].market_id = mid}

\* The positions of the alerts of a type about a pool.
AlertsOfPool(al, type, pid) ==
    {i \in DOMAIN al : al[i].alert_type = type /\ al[i].pool_id = pid}

LedgerEmpty ==
    /\ \A k \in DOMAIN redis_closing : redis_closing[k] = 0
    /\ \A m \in DOMAIN redis_cooldown : redis_cooldown[m] = 0

\* The remaining time of a pool with a closing time.
TimeLeft(pool) == pool.end_date - now

\* C1: in a cycle whose load reports a first run and whose fetch returns
\* pools, no rule runs: no alert is produced or sent and no cooldown or
\* closing key is written; when the cycle returns the snapshot holds the
\* fetched pools and the init key is set.
FirstRunCycleIsSilent ==
    /\ \A p \in Active :
          is_first_run(store[p]) =>
             /\ alerts[p] = <<>>
             /\ sent_count[p] = 0
             /\ pc[p] \notin {"new_markets", "odds", "closing"}
             /\ LedgerEmpty
             /\ emitted = EmptyDict
    /\ (AllIdle /\ last.status = "ok" /\ last.first_run) =>
          /\ last.pools # <<>>
          /\ last.alerts = <<>>
          /\ last.sent_count = 0
          /\ LedgerEmpty
          /\ redis_init
          /\ redis_state # NoState
          /\ Range(redis_state.known_pool_ids) = PoolIdsOf(last.pools)
          /\ \A i \in DOMAIN last.pools : \A j \in DOMAIN last.pools[i].options :
                last.pools[i].options[j].market_id \in DOMAIN redis_state.snapshots

\* C1 witness: a first-run cycle has returned whose pools include one inside
\* a closing window (the closing rule would have fired had it run).
FirstRunCycleIsSilent_Witness ==
    /\ AllIdle /\ last.status = "ok" /\ last.first_run
    /\ \E i \in DOMAIN last.pools :
          /\ last.pools[i].end_date # NoDate
          /\ TimeLeft(last.pools[i]) > 0
          /\ ~OutsideWindow(TimeLeft(last.pools[i]), 24)
    /\ redis_init

\* C2 (as claimed): when a cycle has aborted after detection started and
\* before Save, the next cycle over the same pools detects again every alert
\* the aborted cycle had detected.
AbortedAlertsAreDetectedAgain ==
    \A p \in Procs :
       (/\ pc[p] = "send"
        /\ last.status = "failed"
        /\ last.at \in {"failed", "failed_save"}
        /\ pools[p] = last.pools)
       => \A i \in DOMAIN last.alerts :
             \E j \in DOMAIN alerts[p] : alerts[p][j] = last.alerts[i]

\* An odds_change alert about market m is among al.
HasOddsAlert(al, m) ==
    \E i \in DOMAIN al : al[i].alert_type = "odds_change" /\ al[i].market_id = m

\* C3, first half: with the cooldown key of a market live, check_odds_changes
\* returns no odds_change alert for it, whatever the change.
LiveCooldownSilences ==
    \A p \in Procs :
       pc[p] = "odds" =>
          \A m \in MarketIds :
             redis_cooldown[m] > now =>
                ~HasOddsAlert(check_odds_changes(store[p], pools[p], redis_cooldown).alerts, m)

\* C3, second half: an odds_change alert for a market comes no sooner than
\* the cooldown duration after the previous one for that market.
OddsAlertsSpaced ==
    \A k \in DOMAIN emitted' :
       (k[1] = "odds_change" /\ k \in DOMAIN emitted /\ emitted'[k].n > emitted[k].n)
       => emitted'[k].at - emitted[k].at >= ODDS_CHANGE_COOLDOWN_MINUTES * 60

\* C3: a live cooldown key suppresses the odds_change alerts of its market,
\* and two odds_change alerts for one market are at least the cooldown apart.
CooldownSuppresses == [](LiveCooldownSilences) /\ [][OddsAlertsSpaced]_vars

\* C3 witness: check_odds_changes has run over an option that moved 20 pp
\* while the cooldown key of its market, recorded earlier, was live, and
\* returned no alert for it.
CooldownSuppresses_Witness ==
    \E p \in Procs :
       /\ pc[p] = "closing"
       /\ \E i \in DOMAIN OptionItems(pools[p]) :
             LET opt == OptionItems(pools[p])[i].opt IN
             /\ HasSnapshot(store[p], opt.market_id)
             /\ Abs(opt.yes_pct - store[p].snapshots[opt.market_id].yes_pct) >= 2000
             /\ redis_cooldown[opt.market_id] > now
             /\ redis_cooldown[opt.market_id] < now + ODDS_CHANGE_COOLDOWN_MINUTES * 60
             /\ ~HasOddsAlert(alerts[p], opt.market_id)

\* C4: an option with a stored observation, a change at or above the
\* threshold and no live cooldown key gets exactly one odds_change alert,
\* and the cooldown key of its market exists when the rule returns.
ChangeAtThresholdAlerts ==
    \A p \in Procs :
       pc[p] = "odds" =>
          LET r     == check_odds_changes(store[p], pools[p], redis_cooldown)
              items == OptionItems(pools[p])
          IN  \A i \in DOMAIN items :
                 LET m == items[i].opt.market_id IN
                 (/\ m \in DOMAIN store[p].snapshots
                  /\ Abs(items[i].opt.yes_pct - store[p].snapshots[m].yes_pct)
                        >= ODDS_CHANGE_THRESHOLD_PP
                  /\ ~(redis_cooldown[m] > now))
                 => /\ Cardinality(AlertsFor(r.alerts, "odds_change", items[i].pool_id, m)) = 1
                    /\ r.cooldown[m] > now

\* C4 witness: the rule has returned an alert for an option that moved by
\* exactly the threshold, and the key is live.
ChangeAtThresholdAlerts_Witness ==
    \E p \in Procs :
       /\ pc[p] = "closing"
       /\ \E i \in DOMAIN OptionItems(pools[p]) :
             LET item == OptionItems(pools[p])[i]
                 m    == item.opt.market_id
             IN  /\ m \in DOMAIN store[p].snapshots
                 /\ Abs(item.opt.yes_pct - store[p].snapshots[m].yes_pct)
                       = ODDS_CHANGE_THRESHOLD_PP
                 /\ Cardinality(AlertsFor(alerts[p], "odds_change", item.pool_id, m)) = 1
                 /\ redis_cooldown[m] = now + ODDS_CHANGE_COOLDOWN_MINUTES * 60

\* C5: an option whose change is strictly below the threshold gets no alert
\* and its cooldown key is not written, whatever the keys that exist.
ChangeBelowThresholdIsSilent ==
    \A p \in Procs :
       pc[p] = "odds" =>
          LET r     == check_odds_changes(store[p], pools[p], redis_cooldown)
              items == OptionItems(pools[p])
          IN  \A i \in DOMAIN items :
                 LET m == items[i].opt.market_id IN
                 (/\ m \in DOMAIN store[p].snapshots
                  /\ Abs(items[i].opt.yes_pct - store[p].snapshots[m].yes_pct)
                        < ODDS_CHANGE_THRESHOLD_PP)
                 => /\ ~HasOddsAlert(r.alerts, m)
                    /\ r.cooldown[m] = redis_cooldown[m]

\* C5 witness: the rule has run over an option 0.01 pp short of the
\* threshold, with no key for its market, and returned no alert for it.
ChangeBelowThresholdIsSilent_Witness ==
    \E p \in Procs :
       /\ pc[p] = "closing"
       /\ \E i \in DOMAIN OptionItems(pools[p]) :
             LET item == OptionItems(pools[p])[i]
                 m    == item.opt.market_id
             IN  /\ m \in DOMAIN store[p].snapshots
                 /\ Abs(item.opt.yes_pct - store[p].snapshots[m].yes_pct)
                       = ODDS_CHANGE_THRESHOLD_PP - 1
                 /\ ~HasOddsAlert(alerts[p], m)
                 /\ redis_cooldown[m] = 0

\* C6: a fetched pool whose id is not known gets exactly one new_market
\* alert, the medium pool-level one, and none for its options.
NewPoolAlertsOnce ==
    \A p \in Procs :
       pc[p] = "new_markets" =>
          LET r == check_new_markets(store[p], pools[p]) IN
          \A i \in DOMAIN pools[p] :
             pools[p][i].pool_id \notin store[p].known_pool_ids =>
                /\ Cardinality(AlertsOfPool(r, "new_market", pools[p][i].pool_id)) = 1
                /\ \A j \in AlertsOfPool(r, "new_market", pools[p][i].pool_id) :
                      r[j].priority = "medium" /\ r[j].market_id = 0

\* C6 witness: the rule has run over an unknown pool with an unknown option
\* and returned the pool-level alert alone.
NewPoolAlertsOnce_Witness ==
    \E p \in Procs :
       /\ pc[p] = "odds"
       /\ \E i \in DOMAIN pools[p] :
             /\ pools[p][i].pool_id \notin store[p].known_pool_ids
             /\ \E j \in DOMAIN pools[p][i].options :
                   pools[p][i].options[j].market_id \notin store[p].known_market_ids
             /\ Cardinality(AlertsOfPool(alerts[p], "new_market", pools[p][i].pool_id)) = 1

\* C7: a fetched pool whose id is known gets one low new_market alert per
\* option whose market_id is not known, none for a known option and no
\* pool-level alert.
NewOptionAlertsOnce ==
    \A p \in Procs :
       pc[p] = "new_markets" =>
          LET r == check_new_markets(store[p], pools[p]) IN
          \A i \in DOMAIN pools[p] :
             LET pool == pools[p][i] IN
             pool.pool_id \in store[p].known_pool_ids =>
                /\ \A j \in DOMAIN pool.options :
                      Cardinality(AlertsFor(r, "new_market", pool.pool_id,
                                            pool.options[j].market_id))
                         = IF pool.options[j].market_id \in store[p].known_market_ids
                           THEN 0 ELSE 1
                /\ \A a \in AlertsOfPool(r, "new_market", pool.pool_id) :
                      /\ r[a].priority = "low"
                      /\ \E j \in DOMAIN pool.options :
                            r[a].market_id = pool.options[j].market_id

\* C7 witness: the rule has run over a known pool with a known and an
\* unknown option and returned one alert, for the unknown option.
NewOptionAlertsOnce_Witness ==
    \E p \in Procs :
       /\ pc[p] = "odds"
       /\ \E i \in DOMAIN pools[p] :
             LET pool == pools[p][i] IN
             /\ pool.pool_id \in store[p].known_pool_ids
             /\ \E j, k \in DOMAIN pool.options :
                   /\ pool.options[j].market_id \in store[p].known_market_ids
                   /\ pool.options[k].market_id \notin store[p].known_market_ids
                   /\ AlertsOfPool(alerts[p], "new_market", pool.pool_id)
                         = AlertsFor(alerts[p], "new_market", pool.pool_id,
                                     pool.options[k].market_id)
             /\ Cardinality(AlertsOfPool(alerts[p], "new_market", pool.pool_id)) = 1

\* The windows a pool is inside and has no key for.
UnsentWindows(closing, pool) ==
    {CLOSING_WINDOWS_HOURS[i] : i \in
        {j \in DOMAIN CLOSING_WINDOWS_HOURS :
            /\ TimeLeft(pool) <= CLOSING_WINDOWS_HOURS[j] * 3600
            /\ ~(closing[<<pool.pool_id, WindowKey(CLOSING_WINDOWS_HOURS[j])>>] > now)}}

MinOf(S) == CHOOSE x \in S : \A y \in S : x <= y

\* C8 (as claimed): the closing_soon alert of a pool is for the smallest
\* window the pool is inside that has no key.
ClosingAlertIsMostUrgent ==
    \A p \in Procs :
       pc[p] = "closing" =>
          LET r == check_closing_soon(pools[p], redis_closing).alerts IN
          \A i \in DOMAIN pools[p] :
             LET pool == pools[p][i] IN
             \A a \in AlertsOfPool(r, "closing_soon", pool.pool_id) :
                /\ UnsentWindows(redis_closing, pool) # {}
                /\ r[a].window = WindowKey(MinOf(UnsentWindows(redis_closing, pool)))

\* C9 (as claimed): a second pass of check_closing_soon over the same pools
\* at the same time, with the keys the first pass left, returns no alert for
\* a pool the first pass alerted.
SecondClosingPassIsSilent ==
    \A p \in Procs :
       pc[p] = "closing" =>
          LET first  == check_closing_soon(pools[p], redis_closing)
              second == check_closing_soon(pools[p], first.closing)
          IN  \A i \in DOMAIN first.alerts :
                 AlertsOfPool(second.alerts, "closing_soon", first.alerts[i].pool_id) = {}

\* The keys of a pool that exist.
LiveClosingKeys(closing, pid) == {w \in WindowKeys : closing[<<pid, w>>] > now}

\* C10: one pass of check_closing_soon returns at most one closing_soon alert
\* per pool and records at most one new key per pool.
OneClosingAlertPerPool ==
    \A p \in Procs :
       pc[p] = "closing" =>
          LET r == check_closing_soon(pools[p], redis_closing) IN
          \A pid \in PoolIds :
             /\ Cardinality(AlertsOfPool(r.alerts, "closing_soon", pid)) <= 1
             /\ Cardinality({w \in WindowKeys :
                               r.closing[<<pid, w>>] # redis_closing[<<pid, w>>]}) <= 1

\* C10 witness: the rule has run over a pool inside all three windows with
\* no key recorded before, and returned one alert and recorded one key.
OneClosingAlertPerPool_Witness ==
    \E p \in Procs :
       /\ pc[p] = "send"
       /\ \E i \in DOMAIN pools[p] :
             LET pool == pools[p][i] IN
             /\ pool.end_date # NoDate
             /\ TimeLeft(pool) > 0
             /\ TimeLeft(pool) <= 3600
             /\ Cardinality(AlertsOfPool(alerts[p], "closing_soon", pool.pool_id)) = 1
             /\ Cardinality(LiveClosingKeys(redis_closing, pool.pool_id)) = 1

PastFetch == {"new_markets", "odds", "closing", "send", "save", "mark_init"}

\* C12, the step: the cycle that leaves the fetch for its end writes no key
\* of the store, sends nothing and ends with a warning.
EmptyFetchStep ==
    \A p \in Procs :
       (pc[p] = "fetch" /\ pc'[p] = "idle") =>
          /\ UNCHANGED redisVars
          /\ last'.status = "warning"
          /\ last'.pools = <<>>
          /\ last'.alerts = <<>>
          /\ last'.sent_count = 0

\* C12: a cycle whose fetch returns no pools ends there with a warning and
\* leaves the snapshot, its cycle counter, the init key and the ledger as
\* they were; no cycle goes on with an empty pool list; after a first-run
\* cycle ended so, the next load reports a first run again.
EmptyFetchChangesNothing ==
    /\ [][EmptyFetchStep]_vars
    /\ [](\A p \in Procs : pc[p] \in PastFetch => pools[p] # <<>>)
    /\ [](\A p \in Procs :
             (pc[p] = "fetch" /\ last.status = "warning" /\ last.first_run)
                => is_first_run(store[p]))

\* C12 witness: a first-run cycle has ended on an empty fetch and the next
\* cycle has loaded: it is a first run again.
EmptyFetchChangesNothing_Witness ==
    \E p \in Procs :
       /\ pc[p] = "fetch"
       /\ cycles >= 2
       /\ last.status = "warning"
       /\ last.first_run
       /\ is_first_run(store[p])
       /\ redis_state = NoState
       /\ ~redis_init

\* The order of the positions of a cycle.
Rank(pos) ==
    CASE pos = "idle"        -> 0
      [] pos = "load"        -> 1
      [] pos = "fetch"       -> 2
      [] pos = "new_markets" -> 3
      [] pos = "odds"        -> 4
      [] pos = "closing"     -> 5
      [] pos = "send"        -> 6
      [] pos = "save"        -> 7
      [] pos = "mark_init"   -> 8
      [] OTHER               -> 9

\* C13, the step: a cycle only moves forward through load, fetch, the three
\* rules, send and save; it reaches the send from the last rule (or from the
\* fetch on a first run), the save only from the send, and the snapshot is
\* written only by the save step.
StepInOrder ==
    \A p \in Procs :
       /\ (pc'[p] # pc[p] /\ pc'[p] # "idle") => Rank(pc'[p]) > Rank(pc[p])
       /\ (pc'[p] # pc[p] /\ pc'[p] = "send") =>
             \/ pc[p] = "closing"
             \/ pc[p] = "fetch" /\ is_first_run(store[p])
       /\ (pc'[p] # pc[p] /\ pc'[p] = "save") => pc[p] = "send"
       /\ (pc'[p] # pc[p] /\ pc[p] = "save") => pc'[p] \in {"mark_init", "failed_save"}
       /\ sent_count'[p] > sent_count[p] => pc[p] = "send"
       /\ redis_state' # redis_state =>
             \E q \in Procs : pc[q] = "save" /\ pc'[q] = "mark_init"

\* C13: within a cycle the steps happen in the order load, fetch, detect,
\* send, persist; save_state runs at most once, after the rules have returned
\* and after the send attempt.
StepsInOrder == [][StepInOrder]_vars

\* C13 witness: a cycle that detected alerts and delivered some has written
\* the snapshot.
StepsInOrder_Witness ==
    \E p \in Procs :
       /\ pc[p] = "mark_init"
       /\ alerts[p] # <<>>
       /\ sent_count[p] > 0
       /\ redis_state.meta.last_cycle_ts = now

\* C14 (as claimed): a cycle in which the delivery of an alert failed ends
\* without writing the snapshot.
FailedDeliveryDoesNotPersist ==
    [][\A p \in Procs :
          (pc[p] = "save"
             /\ sent_count[p] < Min(Len(alerts[p]), MAX_TELEGRAM_MESSAGES_PER_CYCLE))
          => redis_state' = redis_state]_vars

\* C15 (as claimed): save_state run twice in sequence with the same pool list
\* leaves the same hash (ids, observations with their stamps, metadata) as
\* save_state run once.
SaveTwiceIsSaveOnce ==
    \A p \in Procs :
       pc[p] = "save" =>
          LET once  == MergeState(store[p], pools[p], now)
              twice == MergeState(once, pools[p], now)
          IN  DumpState(twice) = DumpState(once)

MarketIdsOf(pl) == {OptionItems(pl)[i].opt.market_id : i \in DOMAIN OptionItems(pl)}

\* What a fresh store loads after save_state(pl) has run on the store st.
Reloaded(st, pl) ==
    load_state(NewStore, DumpState(MergeState(st, pl, now)), redis_init)

\* The stored observation of every option of pl is that option's.
ObservationsReflect(loaded, pl) ==
    \A i \in DOMAIN OptionItems(pl) :
       LET opt == OptionItems(pl)[i].opt IN
       /\ opt.market_id \in DOMAIN loaded.snapshots
       /\ loaded.snapshots[opt.market_id].yes_pct = opt.yes_pct
       /\ loaded.snapshots[opt.market_id].no_pct = opt.no_pct
       /\ loaded.snapshots[opt.market_id].yes_multiplier = opt.yes_multiplier
       /\ loaded.snapshots[opt.market_id].no_multiplier = opt.no_multiplier

\* C16 (as claimed): for any prior snapshot, save_state(pools) then load_state
\* in a fresh store yields ids that are exactly those of pools and
\* observations that are those of the options of pools.
RoundTripReflectsPools ==
    \A p \in Procs :
       pc[p] = "save" =>
          LET loaded == Reloaded(store[p], pools[p]) IN
          /\ loaded.known_pool_ids = PoolIdsOf(pools[p])
          /\ loaded.known_market_ids = MarketIdsOf(pools[p])
          /\ ObservationsReflect(loaded, pools[p])

\* C16, amended: save_state(pools) then load_state in a fresh store yields the
\* ids of the prior snapshot together with those of pools (exactly those of
\* pools when the prior snapshot is empty), the observation of every option
\* of pools, and the prior observation of every market pools does not list.
RoundTripMergesPools ==
    \A p \in Procs :
       pc[p] = "save" =>
          LET loaded == Reloaded(store[p], pools[p]) IN
          /\ loaded.known_pool_ids = store[p].known_pool_ids \cup PoolIdsOf(pools[p])
          /\ loaded.known_market_ids = store[p].known_market_ids \cup MarketIdsOf(pools[p])
          /\ ObservationsReflect(loaded, pools[p])
          /\ DOMAIN loaded.snapshots = (DOMAIN store[p].snapshots) \cup MarketIdsOf(pools[p])
          /\ \A m \in (DOMAIN store[p].snapshots) \ MarketIdsOf(pools[p]) :
                loaded.snapshots[m] = store[p].snapshots[m]
          /\ ~loaded.is_first_run

\* C16 witness: the save is about to run with a prior snapshot that knows a
\* pool the fetch does not list and an option whose price has moved.
RoundTripMergesPools_Witness ==
    \E p \in Procs :
       /\ pc[p] = "save"
       /\ store[p].known_pool_ids \ PoolIdsOf(pools[p]) # {}
       /\ \E i \in DOMAIN OptionItems(pools[p]) :
             LET opt == OptionItems(pools[p])[i].opt IN
             /\ opt.market_id \in DOMAIN store[p].snapshots
             /\ store[p].snapshots[opt.market_id].yes_pct # opt.yes_pct

\* C17: when the save of a first-run cycle has written the hash, the known
\* pool ids stored, and loaded from it, are exactly the ids of the fetched
\* pools.
FirstRunKnowsFetchedPools ==
    \A p \in Procs :
       (pc[p] = "mark_init" /\ is_first_run(store[p])) =>
          /\ redis_state # NoState
          /\ Range(redis_state.known_pool_ids) = PoolIdsOf(pools[p])
          /\ Len(redis_state.known_pool_ids) = Cardinality(PoolIdsOf(pools[p]))
          /\ load_state(NewStore, redis_state, redis_init).known_pool_ids
                = PoolIdsOf(pools[p])

\* C17 witness: a first-run cycle has saved two pools, one without options.
FirstRunKnowsFetchedPools_Witness ==
    \E p \in Procs :
       /\ pc[p] = "mark_init"
       /\ is_first_run(store[p])
       /\ Cardinality(PoolIdsOf(pools[p])) = 2
       /\ \E i \in DOMAIN pools[p] : pools[p][i].options = <<>>
       /\ Len(redis_state.known_pool_ids) = 2

\* C18, the step: the snapshot hash and the init key, once written, stay.
SnapshotStays ==
    /\ redis_state # NoState => redis_state' # NoState
    /\ redis_init => redis_init'

\* C18: a load reports a first run exactly when neither the snapshot hash nor
\* the init key exists; both stay once written, so after a first-run cycle
\* has saved, every later load reports no first run.
FirstRunOnlyOnce ==
    /\ [][SnapshotStays]_vars
    /\ [](\A p \in Procs :
             pc[p] = "fetch" =>
                (is_first_run(store[p]) <=> (redis_state = NoState /\ ~redis_init)))
    /\ [](redis_init => redis_state # NoState)

\* C18 witness: a first-run cycle has completed and a later cycle has loaded:
\* it is not a first run.
FirstRunOnlyOnce_Witness ==
    \E p \in Procs :
       /\ pc[p] = "fetch"
       /\ last.status = "ok"
       /\ last.first_run
       /\ ~is_first_run(store[p])
       /\ redis_init

\* C19 (as claimed): recording a ledger entry that exists (not yet expired)
\* again leaves its expiry time as it was.
RecordTwiceIsRecordOnce ==
    /\ \A m \in MarketIds :
          KeyExists(redis_cooldown[m]) =>
             record_odds_cooldown(redis_cooldown, m) = redis_cooldown
    /\ \A k \in DOMAIN redis_closing :
          KeyExists(redis_closing[k]) =>
             record_closing_alert(redis_closing, k[1], k[2]) = redis_closing

\* The market of item i of the loop of check_odds_changes in cycle p.
MarketAt(p, i) == OptionItems(pools[p])[i].opt.market_id

\* C20, the step: each command is right by itself: a cycle that finds the
\* cooldown key of a market goes on without recording or alerting, and the
\* odds_change alert of a market is appended only by the step that records
\* its key.
ExistsThenRecordStep ==
    \A p \in Procs :
       /\ \A i \in 1..Cardinality(MarketIds) :
             (/\ pc[p] = OddsExistsAt(i)
              /\ pc'[p] # pc[p]
              /\ KeyExists(redis_cooldown[MarketAt(p, i)]))
             => (pc'[p] # OddsRecordAt(i) /\ alerts'[p] = alerts[p]
                   /\ redis_cooldown' = redis_cooldown)
       /\ \A m \in MarketIds :
             (HasOddsAlert(alerts'[p], m) /\ ~HasOddsAlert(alerts[p], m))
             => (\E i \in 1..Cardinality(MarketIds) :
                    pc[p] = OddsRecordAt(i) /\ MarketAt(p, i) = m)
                /\ redis_cooldown'[m] = now + ODDS_CHANGE_COOLDOWN_MINUTES * 60

\* C20: the EXISTS and the SET of the odds cooldown are two steps and cycles
\* may overlap: each step is right by itself (a live key silences, an alert
\* comes with its key, a cycle alerts a market at most once), and still two
\* overlapping cycles can both pass the EXISTS of a market before either
\* SET and both alert (the witness).
ExistsThenRecordIsNotAtomic ==
    /\ [][ExistsThenRecordStep]_vars
    /\ [](\A p \in Procs : \A m \in MarketIds :
             /\ Cardinality({i \in DOMAIN alerts[p] :
                   alerts[p][i].alert_type = "odds_change"
                   /\ alerts[p][i].market_id = m}) <= 1
             /\ HasOddsAlert(alerts[p], m) => KeyExists(redis_cooldown[m]))

\* C20 witness: two cycles in flight both hold an odds_change alert for the
\* same market, detected at the same time.
ExistsThenRecordIsNotAtomic_Witness ==
    \E p, q \in Procs : \E m \in MarketIds :
       /\ p # q
       /\ HasOddsAlert(alerts[p], m)
       /\ HasOddsAlert(alerts[q], m)
       /\ \E k \in DOMAIN emitted :
             k[1] = "odds_change" /\ k[3] = m /\ emitted[k].n >= 2 /\ emitted[k].at = now

\* C21, the step: the save of a cycle persists that cycle's own copy of the
\* snapshot merged with its own pools, whatever the hash held before.
LastWriteWinsStep ==
    \A p \in Procs :
       (pc[p] = "save" /\ pc'[p] = "mark_init") =>
          /\ Range(redis_state'.known_pool_ids)
                = store[p].known_pool_ids \cup PoolIdsOf(pools[p])
          /\ Range(redis_state'.known_market_ids)
                = store[p].known_market_ids \cup MarketIdsOf(pools[p])
          /\ DOMAIN redis_state'.snapshots
                = (DOMAIN store[p].snapshots) \cup MarketIdsOf(pools[p])

ErrorAlertStep ==
    /\ error_alerts'.n > error_alerts.n =>
          /\ ~KeyExists(redis_error)
          /\ error_alerts'.n = error_alerts.n + 1
          /\ redis_error' = now + ERROR_TTL
          /\ error_alerts.n > 0 => now - error_alerts.at >= ERROR_TTL
    /\ (KeyExists(redis_error) /\ now' = now) =>
          (error_alerts' = error_alerts /\ redis_error' = redis_error)

RuleFailureDoesNotBlock ==
    [][\A p \in Procs :
          /\ (pc[p] = "odds" /\ pc'[p] # pc[p]) => pc'[p] = "closing"
          /\ (pc[p] = "closing" /\ pc'[p] # pc[p]) => pc'[p] = "send"]_vars

RulePositions == {"new_markets", "odds", "closing"}

\* C24, the step: a step of a detection rule leaves the hash, the init key
\* and the cycle's loaded copy as they are; the copy changes only when the
\* cycle starts, loads, saves or ends, and the hash only in the save.
RulesReadOnlyStep ==
    \A p \in Procs :
       /\ (pc[p] \in RulePositions /\ pc'[p] # pc[p]) =>
             /\ store'[p] = store[p]
             /\ redis_state' = redis_state
             /\ redis_init' = redis_init
       /\ store'[p] # store[p] =>
             \/ pc[p] \in {"idle", "load", "save"}
             \/ pc'[p] = "idle"
       /\ redis_state' # redis_state => \E q \in Procs : pc[q] = "save"

\* C24: the detection rules never modify the snapshot; they read the copy
\* loaded at the start of the cycle, and only save_state changes it.
RulesReadOnly == [][RulesReadOnlyStep]_vars

\* C24 witness: the three rules have run and alerted a pool as new, and
\* neither the cycle's copy nor the hash knows the pool.
RulesReadOnly_Witness ==
    \E p \in Procs :
       /\ pc[p] = "send"
       /\ \E i \in DOMAIN alerts[p] :
             /\ alerts[p][i].alert_type = "new_market"
             /\ alerts[p][i].market_id = 0
             /\ alerts[p][i].pool_id \notin store[p].known_pool_ids
             /\ alerts[p][i].pool_id \notin Range(redis_state.known_pool_ids)

TypeRank(type) ==
    CASE type = "new_market"   -> 1
      [] type = "odds_change"  -> 2
      [] type = "closing_soon" -> 3

\* The position of a pool in the fetched list.
PoolIndex(pl, pid) == CHOOSE i \in DOMAIN pl : pl[i].pool_id = pid

\* The position of an option in the visiting order of the fetched list (0
\* for an alert about the pool itself).
OptionIndex(pl, mid) ==
    IF mid = 0 THEN 0
    ELSE CHOOSE i \in DOMAIN OptionItems(pl) : OptionItems(pl)[i].opt.market_id = mid

\* Alert a comes before alert b: by rule, then by pool, then by option.
ComesBefore(pl, a, b) ==
    \/ TypeRank(a.alert_type) < TypeRank(b.alert_type)
    \/ /\ a.alert_type = b.alert_type
       /\ \/ PoolIndex(pl, a.pool_id) < PoolIndex(pl, b.pool_id)
          \/ /\ a.pool_id = b.pool_id
             /\ OptionIndex(pl, a.market_id) < OptionIndex(pl, b.market_id)

\* C25: the alert list of a cycle is the new_market alerts, then the
\* odds_change alerts, then the closing_soon alerts, each group in the order
\* of the fetched pools; each rule appends to what the rules before returned.
AlertsInRuleOrder ==
    /\ [](\A p \in Procs : \A i, j \in DOMAIN alerts[p] :
             i < j => ComesBefore(pools[p], alerts[p][i], alerts[p][j]))
    /\ [][\A p \in Procs :
             (pc[p] \in RulePositions /\ pc'[p] \in RulePositions \cup {"send"}) =>
                /\ Len(alerts'[p]) >= Len(alerts[p])
                /\ SubSeq(alerts'[p], 1, Len(alerts[p])) = alerts[p]]_vars

\* C25 witness: a list with two new_market alerts about different pools, an
\* odds_change alert and a closing_soon alert is handed to the transport.
AlertsInRuleOrder_Witness ==
    \E p \in Procs :
       /\ pc[p] = "send"
       /\ Len(alerts[p]) = 4
       /\ alerts[p][1].alert_type = "new_market"
       /\ alerts[p][2].alert_type = "new_market"
       /\ alerts[p][1].pool_id # alerts[p][2].pool_id
       /\ alerts[p][3].alert_type = "odds_change"
       /\ alerts[p][4].alert_type = "closing_soon"

\* The position before the attempt of alert i, for some i.
Sending(p) == \E i \in 1..MAX_TELEGRAM_MESSAGES_PER_CYCLE : pc[p] = SendAt(i)

\* C26, the step: the attempts go through the first min(n, cap) alerts one
\* by one, whether a delivery fails or not; each adds at most one to the
\* count; the loop ends after attempt min(n, cap), with the notice exactly
\* when n exceeds the cap, and the notice is one step that counts nothing.
SendStep ==
    \A p \in Procs :
       LET n   == Len(alerts[p])
           cap == MAX_TELEGRAM_MESSAGES_PER_CYCLE
       IN  /\ \A i \in 1..cap :
                 (pc[p] = SendAt(i) /\ pc'[p] # pc[p]) =>
                    /\ i <= Min(n, cap)
                    /\ sent_count'[p] \in {sent_count[p], sent_count[p] + 1}
                    /\ pc'[p] = IF i < Min(n, cap) THEN SendAt(i + 1)
                                ELSE IF n > cap THEN SendNoticeAt ELSE "save"
           /\ (pc[p] = "send" /\ pc'[p] # pc[p]) =>
                 pc'[p] = IF n = 0 THEN "save" ELSE SendAt(1)
           /\ (pc[p] = SendNoticeAt /\ pc'[p] # pc[p]) =>
                 (pc'[p] = "save" /\ sent_count'[p] = sent_count[p])
           /\ pc'[p] = SendNoticeAt => (n > cap /\ pc[p] \in {SendAt(cap), SendNoticeAt})

OptionOf(pl, m) ==
    OptionItems(pl)[CHOOSE i \in DOMAIN OptionItems(pl) : OptionItems(pl)[i].opt.market_id = m].opt

\* C27: once the cooldown duration has passed since the odds_change alert of
\* a market (and no exception re-recorded the key), is_odds_on_cooldown is
\* false for it; and with the key gone, a change at or above the threshold
\* against the stored observation is alerted again.
ExpiredCooldownAlertsAgain ==
    \A p \in Procs :
       pc[p] = "odds" =>
          LET r     == check_odds_changes(store[p], pools[p], redis_cooldown)
              items == OptionItems(pools[p])
          IN  \A i \in DOMAIN items :
                 LET m == items[i].opt.market_id
                     k == <<"odds_change", items[i].pool_id, m, "">>
                 IN  k \in DOMAIN emitted =>
                        /\ (failures = 0
                              /\ emitted[k].at + ODDS_CHANGE_COOLDOWN_MINUTES * 60 <= now)
                           => ~is_odds_on_cooldown(redis_cooldown, m)
                        /\ (/\ ~is_odds_on_cooldown(redis_cooldown, m)
                            /\ m \in DOMAIN store[p].snapshots
                            /\ Abs(items[i].opt.yes_pct - store[p].snapshots[m].yes_pct)
                                  >= ODDS_CHANGE_THRESHOLD_PP)
                           => /\ HasOddsAlert(r.alerts, m)
                              /\ r.cooldown[m] = now + ODDS_CHANGE_COOLDOWN_MINUTES * 60

\* C27 witness: a market alerted once has been alerted a second time, the
\* cooldown duration after the first, and its key is recorded anew.
ExpiredCooldownAlertsAgain_Witness ==
    \E p \in Procs : \E m \in MarketIds :
       /\ pc[p] = "closing"
       /\ HasOddsAlert(alerts[p], m)
       /\ \E k \in DOMAIN emitted :
             k[1] = "odds_change" /\ k[3] = m /\ emitted[k].n = 2 /\ emitted[k].at = now
       /\ now >= ODDS_CHANGE_COOLDOWN_MINUTES * 60
       /\ redis_cooldown[m] = now + ODDS_CHANGE_COOLDOWN_MINUTES * 60

\* C28: an odds_change alert is high exactly when the change it reports is
\* 20 pp or more in either direction, and medium otherwise; none is low.
OddsPriorityByChange ==
    \A p \in Procs :
       pc[p] = "odds" =>
          LET r == check_odds_changes(store[p], pools[p], redis_cooldown).alerts IN
          \A i \in DOMAIN r :
             LET m      == r[i].market_id
                 change == OptionOf(pools[p], m).yes_pct - store[p].snapshots[m].yes_pct
             IN  /\ r[i].alert_type = "odds_change"
                 /\ r[i].priority \in {"high", "medium"}
                 /\ r[i].priority = "high" <=> (change >= 2000 \/ change <= 0 - 2000)

\* C28 witness: the rule has returned a high alert for a change of exactly
\* 20 pp and a medium alert for a change of 10 pp.
OddsPriorityByChange_Witness ==
    \E p \in Procs :
       /\ pc[p] = "closing"
       /\ \E i, j \in DOMAIN alerts[p] :
             /\ alerts[p][i].alert_type = "odds_change"
             /\ alerts[p][i].priority = "high"
             /\ Abs(OptionOf(pools[p], alerts[p][i].market_id).yes_pct
                      - store[p].snapshots[alerts[p][i].market_id].yes_pct) = 2000
             /\ alerts[p][j].alert_type = "odds_change"
             /\ alerts[p][j].priority = "medium"

\* The priority the claim gives a window label.
PriorityOfLabel(label) ==
    CASE label = "1h"  -> "high"
      [] label = "6h"  -> "medium"
      [] label = "24h" -> "low"

\* C29: a closing_soon alert has the priority of the window that fired, and
\* the key recorded for its pool is the key of that window and no other.
ClosingPriorityByWindow ==
    \A p \in Procs :
       pc[p] = "closing" =>
          LET r == check_closing_soon(pools[p], redis_closing) IN
          \A i \in DOMAIN r.alerts :
             LET a == r.alerts[i] IN
             /\ a.window \in WindowKeys
             /\ a.priority = PriorityOfLabel(a.window)
             /\ ~(redis_closing[<<a.pool_id, a.window>>] > now)
             /\ r.closing[<<a.pool_id, a.window>>] = now + CLOSING_TTL
             /\ \A w \in WindowKeys \ {a.window} :
                   r.closing[<<a.pool_id, w>>] = redis_closing[<<a.pool_id, w>>]

\* C29 witness: the rule has fired the 6h window of a pool: the alert is
\* medium and the 6h key is the one just recorded.
ClosingPriorityByWindow_Witness ==
    \E p \in Procs :
       /\ pc[p] = "send"
       /\ \E i \in DOMAIN alerts[p] :
             /\ alerts[p][i].alert_type = "closing_soon"
             /\ alerts[p][i].window = "6h"
             /\ alerts[p][i].priority = "medium"
             /\ redis_closing[<<alerts[p][i].pool_id, "6h">>] = now + CLOSING_TTL
             /\ redis_closing[<<alerts[p][i].pool_id, "24h">>] < now + CLOSING_TTL

\* The hours of a window label.
HoursOfLabel(label) ==
    CASE label = "1h"  -> 1
      [] label = "6h"  -> 6
      [] label = "24h" -> 24

\* The pool cannot close soon: no end date, one that does not parse, or no
\* time left.
CannotClose(pool) ==
    \/ pool.end_date = NoDate
    \/ pool.end_date = BadDate
    \/ pool.end_date - now <= 0

\* C30: check_closing_soon returns no alert and records no key for a pool
\* without end date, with one that does not parse, or with no time left;
\* an alert is for a window the pool is inside; and a pool with time left,
\* inside a window it has no key for, is alerted wherever it stands in the
\* list.
ClosingSkipsUnusablePools ==
    \A p \in Procs :
       pc[p] = "closing" =>
          LET r == check_closing_soon(pools[p], redis_closing) IN
          /\ \A i \in DOMAIN pools[p] :
                LET pool == pools[p][i] IN
                /\ CannotClose(pool) =>
                      /\ AlertsOfPool(r.alerts, "closing_soon", pool.pool_id) = {}
                      /\ \A w \in WindowKeys :
                            r.closing[<<pool.pool_id, w>>] = redis_closing[<<pool.pool_id, w>>]
                /\ (~CannotClose(pool) /\ UnsentWindows(redis_closing, pool) # {}) =>
                      AlertsOfPool(r.alerts, "closing_soon", pool.pool_id) # {}
          /\ \A j \in DOMAIN r.alerts :
                \E i \in DOMAIN pools[p] :
                   /\ pools[p][i].pool_id = r.alerts[j].pool_id
                   /\ ~CannotClose(pools[p][i])
                   /\ pools[p][i].end_date - now <= HoursOfLabel(r.alerts[j].window) * 3600

\* C30 witness: the rule has run over a pool whose end date does not parse
\* followed by a pool inside the 24h window: one alert, for the second pool,
\* and no key for the first.
ClosingSkipsUnusablePools_Witness ==
    \E p \in Procs :
       /\ pc[p] = "send"
       /\ Len(pools[p]) = 2
       /\ pools[p][1].end_date = BadDate
       /\ Len(alerts[p]) = 1
       /\ alerts[p][1].pool_id = pools[p][2].pool_id
       /\ \A w \in WindowKeys : redis_closing[<<pools[p][1].pool_id, w>>] = 0

\* C31: check_odds_changes returns no odds_change alert and records no
\* cooldown key for an option whose market has no stored observation, among
\* them the options of a pool the store does not know.
NoBaselineNoOddsAlert ==
    \A p \in Procs :
       pc[p] = "odds" =>
          LET r     == check_odds_changes(store[p], pools[p], redis_cooldown)
              items == OptionItems(pools[p])
          IN  \A i \in DOMAIN items :
                 LET m == items[i].opt.market_id IN
                 /\ ~HasSnapshot(store[p], m) =>
                       /\ ~HasOddsAlert(r.alerts, m)
                       /\ r.cooldown[m] = redis_cooldown[m]
                 /\ (items[i].pool_id \notin get_known_pool_ids(store[p])
                       /\ m \notin get_known_market_ids(store[p]))
                    => ~HasOddsAlert(r.alerts, m)

\* C31 witness: the odds rule has run over a known pool whose price moved
\* and a pool first seen in this cycle: it alerted the first and left the
\* option of the second without alert and without cooldown key.
NoBaselineNoOddsAlert_Witness ==
    \E p \in Procs :
       /\ pc[p] = "closing"
       /\ \E i \in DOMAIN pools[p] :
             /\ pools[p][i].pool_id \notin get_known_pool_ids(store[p])
             /\ pools[p][i].options # <<>>
             /\ \A j \in DOMAIN pools[p][i].options :
                   LET m == pools[p][i].options[j].market_id IN
                   /\ ~HasSnapshot(store[p], m)
                   /\ ~HasOddsAlert(alerts[p], m)
                   /\ redis_cooldown[m] = 0
       /\ \E m \in MarketIds : HasOddsAlert(alerts[p], m)

\* A step leaves every known id known and every stored observation in
\* place, and changes only the observations of the markets being saved.
SnapshotGrowsStep ==
    redis_state # NoState =>
       /\ redis_state' # NoState
       /\ Range(redis_state.known_pool_ids) \subseteq Range(redis_state'.known_pool_ids)
       /\ Range(redis_state.known_market_ids) \subseteq Range(redis_state'.known_market_ids)
       /\ \A m \in DOMAIN redis_state.snapshots :
             /\ m \in DOMAIN redis_state'.snapshots
             /\ (\A p \in Procs : pc[p] = "save" => m \notin MarketIdsOf(pools[p]))
                => redis_state'.snapshots[m] = redis_state.snapshots[m]

\* The ids the persisted snapshot knows.
PersistedPoolIds == IF redis_state = NoState THEN {} ELSE Range(redis_state.known_pool_ids)
PersistedMarketIds == IF redis_state = NoState THEN {} ELSE Range(redis_state.known_market_ids)

\* No new_market alert is returned for a pool or an option the persisted
\* snapshot knows, and while no cycle was aborted no pool and no option has
\* been alerted as new twice.
KnownIsNotNewAgain ==
    /\ \A p \in Procs :
          pc[p] = "new_markets" =>
             LET r == check_new_markets(store[p], pools[p]) IN
             \A i \in DOMAIN r :
                /\ r[i].market_id = 0 => r[i].pool_id \notin PersistedPoolIds
                /\ r[i].market_id # 0 => r[i].market_id \notin PersistedMarketIds
    /\ failures = 0 =>
          \A k \in DOMAIN emitted : k[1] = "new_market" => emitted[k].n = 1

\* C32: over serialized cycles the known pool ids and market ids only grow,
\* the stored observation of a market absent from the fetch is left as it
\* is, and a pool or option that was known is not alerted as new again when
\* it reappears.
KnownIdsOnlyGrow == [][SnapshotGrowsStep]_vars /\ []KnownIsNotNewAgain

\* C32 witness: pool p2 was alerted as new in an earlier cycle, was missing
\* from the fetch of the last cycle, is fetched again now, and the rule has
\* returned no new_market alert for it; its observation is the one stored
\* when it was last fetched.
KnownIdsOnlyGrow_Witness ==
    \E p \in Procs :
       /\ pc[p] = "odds"
       /\ "p2" \in PoolIdsOf(pools[p])
       /\ last.status = "ok" /\ last.pools # <<>> /\ "p2" \notin PoolIdsOf(last.pools)
       /\ <<"new_market", "p2", 0, "">> \in DOMAIN emitted
       /\ emitted[<<"new_market", "p2", 0, "">>].at < now
       /\ AlertsOfPool(alerts[p], "new_market", "p2") = {}
       /\ redis_state.snapshots[3].ts < redis_state.meta.last_cycle_ts

\* The keys a rule wrote, given the keys before and after it.
Written(before, after) == {k \in DOMAIN before : after[k] # before[k]}

\* The rules write a key exactly with an alert: after any number of
\* iterations of check_odds_changes the cooldown keys written are the
\* markets of the alerts built so far, after any number of iterations of
\* check_closing_soon the closing keys written are the (pool, window) pairs
\* of the alerts built so far, and each written key is live.
KeysMatchAlerts ==
    \A p \in Procs :
       /\ pc[p] = "odds" =>
             \A k \in 0..Len(OptionItems(pools[p])) :
                LET r == OddsLoop(store[p], SubSeq(OptionItems(pools[p]), 1, k),
                                  [alerts |-> <<>>, cooldown |-> redis_cooldown])
                IN  /\ Written(redis_cooldown, r.cooldown)
                          = {r.alerts[i].market_id : i \in DOMAIN r.alerts}
                    /\ \A i \in DOMAIN r.alerts : r.alerts[i].alert_type = "odds_change"
                    /\ \A m \in Written(redis_cooldown, r.cooldown) : KeyExists(r.cooldown[m])
       /\ pc[p] = "closing" =>
             \A k \in 0..Len(pools[p]) :
                LET r == ClosingLoop(SubSeq(pools[p], 1, k),
                                     [alerts |-> <<>>, closing |-> redis_closing])
                IN  /\ Written(redis_closing, r.closing)
                          = {<<r.alerts[i].pool_id, r.alerts[i].window>> : i \in DOMAIN r.alerts}
                    /\ \A i \in DOMAIN r.alerts : r.alerts[i].alert_type = "closing_soon"
                    /\ \A c \in Written(redis_closing, r.closing) : KeyExists(r.closing[c])

\* A step that is not of the odds rule leaves the cooldown keys, a step that
\* is not of the closing rule leaves the closing keys, but for the keys
\* whose TTL has elapsed; in particular check_new_markets writes none and a
\* live key is never deleted.
OnlyRulesWriteStep ==
    /\ \A m \in DOMAIN redis_cooldown :
          redis_cooldown'[m] # redis_cooldown[m] =>
             \/ \E p \in Procs : pc[p] = "odds" /\ redis_cooldown'[m] = now + ODDS_CHANGE_COOLDOWN_MINUTES * 60
             \/ redis_cooldown'[m] = 0 /\ redis_cooldown[m] <= now'
    /\ \A c \in DOMAIN redis_closing :
          redis_closing'[c] # redis_closing[c] =>
             \/ \E p \in Procs : pc[p] = "closing" /\ redis_closing'[c] = now + CLOSING_TTL
             \/ redis_closing'[c] = 0 /\ redis_closing[c] <= now'

\* C33: ledger entries are written only with an alert of their class: the
\* cooldown keys a pass of check_odds_changes writes are the markets of its
\* odds_change alerts, the closing keys a pass of check_closing_soon writes
\* are the (pool, window) pairs of its closing_soon alerts, check_new_markets
\* writes none, and no step deletes a key whose TTL has not elapsed.
LedgerWrittenWithAlerts == []KeysMatchAlerts /\ [][OnlyRulesWriteStep]_vars

\* C33 witness: a cycle has detected an odds_change and a closing_soon
\* alert, the cooldown key of that market and the closing key of that pool
\* and window are live, and no other key is.
LedgerWrittenWithAlerts_Witness ==
    \E p \in Procs :
       /\ pc[p] = "send"
       /\ \E i, j \in DOMAIN alerts[p] :
             /\ alerts[p][i].alert_type = "odds_change"
             /\ alerts[p][j].alert_type = "closing_soon"
             /\ \A m \in MarketIds :
                   KeyExists(redis_cooldown[m]) <=> m = alerts[p][i].market_id
             /\ \A c \in DOMAIN redis_closing :
                   KeyExists(redis_closing[c])
                      <=> c = <<alerts[p][j].pool_id, alerts[p][j].window>>
       /\ \E i \in DOMAIN alerts[p] : alerts[p][i].alert_type = "new_market"

\* The positions of a cycle whose store has been loaded.
Loaded == {p \in Procs : pc[p] \notin {"idle", "load", "failed_load"}}

\* C34: while the init key exists the snapshot hash exists and knows at
\* least one pool; so a store that loaded is_first_run = False holds a
\* snapshot that is not empty, the persisted one, and the pools its
\* check_new_markets alerts are pools that snapshot does not know.
MarkerImpliesSnapshot ==
    /\ redis_init => (redis_state # NoState /\ redis_state.known_pool_ids # <<>>)
    /\ \A p \in Loaded :
          ~is_first_run(store[p]) =>
             /\ redis_state # NoState
             /\ get_known_pool_ids(store[p]) # {}
             /\ pc[p] \in {"fetch", "new_markets"} =>
                   /\ get_known_pool_ids(store[p]) = Range(redis_state.known_pool_ids)
                   /\ DOMAIN store[p].snapshots = DOMAIN redis_state.snapshots
             /\ pc[p] = "new_markets" =>
                   LET r == check_new_markets(store[p], pools[p]) IN
                   \A i \in DOMAIN r :
                      r[i].market_id = 0 =>
                         r[i].pool_id \notin Range(redis_state.known_pool_ids)

\* C34 witness: the init key is set, and a later cycle that is not a first
\* run has fetched a known and an unknown pool and alerted the unknown one
\* alone.
MarkerImpliesSnapshot_Witness ==
    \E p \in Procs :
       /\ redis_init
       /\ pc[p] = "odds"
       /\ ~is_first_run(store[p])
       /\ Len(pools[p]) = 2
       /\ get_known_pool_ids(store[p]) = {pools[p][1].pool_id}
       /\ Len(alerts[p]) = 1
       /\ alerts[p][1].pool_id = pools[p][2].pool_id

\* C35: the baseline check_odds_changes compares with is the observation in
\* the persisted snapshot, which holds the prices of the last cycle that
\* saved, alert or not; an odds_change alert is returned only for a price
\* at least the threshold away from that baseline.
BaselineIsLastSaved ==
    \A p \in Procs :
       (pc[p] = "odds" /\ redis_state # NoState) =>
          /\ store[p].snapshots = redis_state.snapshots
          /\ last.status = "ok" =>
                \A i \in DOMAIN OptionItems(last.pools) :
                   LET opt == OptionItems(last.pools)[i].opt IN
                   /\ opt.market_id \in DOMAIN redis_state.snapshots
                   /\ redis_state.snapshots[opt.market_id].yes_pct = opt.yes_pct
          /\ LET r == check_odds_changes(store[p], pools[p], redis_cooldown).alerts IN
             \A i \in DOMAIN r :
                LET m == r[i].market_id IN
                /\ m \in DOMAIN redis_state.snapshots
                /\ Abs(OptionOf(pools[p], m).yes_pct - redis_state.snapshots[m].yes_pct)
                      >= ODDS_CHANGE_THRESHOLD_PP

\* C35 witness: the price went 30, 36, 42 over three cycles (sub-market 2
\* appeared with the second): 12 pp in all, and no odds_change alert was
\* ever returned.
BaselineIsLastSaved_Witness ==
    \E p \in Procs :
       /\ pc[p] = "closing"
       /\ failures = 0
       /\ redis_state.meta.cycle_count = 2
       /\ <<"new_market", "p1", 2, "">> \in DOMAIN emitted
       /\ \A k \in DOMAIN emitted : k[1] # "odds_change"
       /\ redis_state.snapshots[1].yes_pct = 3600
       /\ OptionOf(pools[p], 1).yes_pct = 4200
       /\ alerts[p] = <<>>

\* C35, second witness: the price went 30, 50 (alerted, with pool p2 new),
\* back to 30 within the cooldown (suppressed) and stayed at 30 after the
\* cooldown had expired: no alert in the last two cycles.
SuppressedChangeIsNotAlertedLater ==
    \E p \in Procs :
       LET k == <<"odds_change", "p1", 1, "">> IN
       /\ pc[p] = "closing"
       /\ failures = 0
       /\ cycles = 4
       /\ k \in DOMAIN emitted /\ emitted[k].n = 1
       /\ <<"new_market", "p2", 0, "">> \in DOMAIN emitted
       /\ emitted[<<"new_market", "p2", 0, "">>].at = emitted[k].at
       /\ last.status = "ok" /\ last.alerts = <<>>
       /\ OptionOf(last.pools, 1).yes_pct = 3000
       /\ redis_state.meta.last_cycle_ts > emitted[k].at
       /\ redis_state.meta.last_cycle_ts < emitted[k].at + ODDS_CHANGE_COOLDOWN_MINUTES * 60
       /\ now >= emitted[k].at + ODDS_CHANGE_COOLDOWN_MINUTES * 60
       /\ OptionOf(pools[p], 1).yes_pct = 3000
       /\ alerts[p] = <<>>

\* The number of closing keys of a pool that are live.
LiveClosingCount(closing, pid) ==
    Cardinality({w \in WindowKeys : KeyExists(closing[<<pid, w>>])})

\* How often a closing_soon alert of a pool was detected, over all windows.
ClosingAlertsEmitted(pid) ==
    Cardinality({k \in DOMAIN emitted : k[1] = "closing_soon" /\ k[2] = pid})

SnapshotIsConsistent ==
    redis_state # NoState =>
       /\ DOMAIN redis_state.snapshots = Range(redis_state.known_market_ids)
       /\ DOMAIN redis_state.markets = Range(redis_state.known_market_ids)
       /\ DOMAIN redis_state.pools = Range(redis_state.known_pool_ids)
       /\ \A m \in DOMAIN redis_state.markets :
             redis_state.markets[m].pool_id \in Range(redis_state.known_pool_ids)

\* C37 witness: three saves have built a snapshot of two pools and three
\* markets, one pool saved once without sub-markets.
SnapshotIsConsistent_Witness ==
    /\ AllIdle
    /\ redis_state # NoState
    /\ redis_state.meta.cycle_count = 3
    /\ Range(redis_state.known_pool_ids) = PoolIds
    /\ Range(redis_state.known_market_ids) = MarketIds
    /\ last.status = "ok"
    /\ \E i \in DOMAIN last.pools : last.pools[i].options = <<>>

\* C38: the snapshot is saved after the send whatever was delivered: when a
\* cycle has returned, the snapshot holds its pools and prices; and the
\* next cycle over the same pools detects none of the alerts the cycle had
\* detected, delivered or not.
UndeliveredIsNotDetectedAgain ==
    /\ (AllIdle /\ last.status = "ok") =>
          /\ redis_state # NoState
          /\ PoolIdsOf(last.pools) \subseteq Range(redis_state.known_pool_ids)
          /\ \A i \in DOMAIN OptionItems(last.pools) :
                LET opt == OptionItems(last.pools)[i].opt IN
                /\ opt.market_id \in Range(redis_state.known_market_ids)
                /\ redis_state.snapshots[opt.market_id].yes_pct = opt.yes_pct
    /\ \A p \in Procs :
          (pc[p] = "send" /\ last.status = "ok" /\ pools[p] = last.pools) =>
             \A i \in DOMAIN last.alerts : \A j \in DOMAIN alerts[p] :
                AlertKey(alerts[p][j]) # AlertKey(last.alerts[i])

\* C38 witness: a cycle detected MaxAlerts alerts, more than the cap, and
\* delivered fewer than the cap allows; the next cycle over the same pools
\* has run its rules and detected none of them again.
UndeliveredIsNotDetectedAgain_Witness ==
    \E p \in Procs :
       /\ pc[p] = "send"
       /\ last.status = "ok"
       /\ pools[p] = last.pools
       /\ Len(last.alerts) = MaxAlerts
       /\ Len(last.alerts) > MAX_TELEGRAM_MESSAGES_PER_CYCLE
       /\ last.sent_count < MAX_TELEGRAM_MESSAGES_PER_CYCLE
       /\ last.alerts[Len(last.alerts)].alert_type = "closing_soon"
       /\ last.alerts[Len(last.alerts) - 1].alert_type = "odds_change"
       /\ last.alerts[1].alert_type = "new_market"

\* C39: a social cycle that finds the init marker absent queues no post, has
\* marked every fetched post with a non-empty id as seen once its loop is
\* over, and has set the marker when it returns; a cycle queues a post only
\* when it is not such a first run and the post's id is not in the seen set,
\* and marks the id seen.
FirstRunSeedsOnly ==
    /\ social_pc \in {"fetch", "posts", "send"} => (is_first <=> ~social_init)
    /\ is_first => new_ig_posts = <<>>
    /\ is_first /\ social_pc \in {"send", "trim", "idle"} =>
           \A i \in DOMAIN posts :
               PostIdOf(social_entry, posts[i]) # NoId =>
                   PostIdOf(social_entry, posts[i]) \in social_seen
    /\ is_first /\ social_pc \in {"trim", "idle"} => social_init

QueuesUnseenOnlyStep ==
    new_ig_posts' # new_ig_posts /\ new_ig_posts' # <<>> =>
        LET post_id == PostIdOf(social_entry, new_ig_posts'[Len(new_ig_posts')])
        IN  /\ ~is_first
            /\ social_init
            /\ post_id # NoId
            /\ post_id \notin social_seen
            /\ post_id \in social_seen'
            /\ new_ig_posts' = Append(new_ig_posts, posts[post_idx])

QueuedAtMostOnce == \A k \in NewPostIds : queued[k] <= 1

====
